---- MODULE Spec2Model ----
(***************************************************************************)
(* cloudns-cloudformation-sync: one synchronisation pass (main) that lists *)
(* CloudFormation exports, parses the "ClouDNS:<type>:<labels...>" naming  *)
(* convention, resolves zone and host by probing the provider, and creates *)
(* or updates one record per directive.                                    *)
(*                                                                         *)
(* Three builds of the driver are modelled: "multi" (src/unnamed/part_000, *)
(* lines 1-182, stackName...), "single" (src/lib/...-sync.js, at most one  *)
(* stackName) and "ts" (the TypeScript source, src/unnamed/part_000 lines  *)
(* 183-350, no stack names).  They share every function but main's stack   *)
(* filter.                                                                 *)
(*                                                                         *)
(* A JavaScript string is a sequence of tokens: the separator characters   *)
(* ":", "." and "/" are tokens of their own, and every maximal run of      *)
(* other characters is one token.  '' is <<>>.                             *)
(***************************************************************************)
EXTENDS Integers, Sequences, FiniteSets, TLC

(* ------------------------------ bounds --------------------------------- *)

MaxExports == 2

(* The keys of a response that are array indices run up to MaxKey.          *)
MaxKey == 120

(* ------------------------- JavaScript helpers -------------------------- *)

Min(a, b) == IF a < b THEN a ELSE b
Max(a, b) == IF a > b THEN a ELSE b

(* Array.prototype.slice(start, end): negative indices count from the end,  *)
(* both are clamped to 0..length.                                           *)
Clamp(k, n) == IF k < 0 THEN Max(n + k, 0) ELSE Min(k, n)
Slice(a, start, end) == SubSeq(a, Clamp(start, Len(a)) + 1, Clamp(end, Len(a)))
SliceFrom(a, start) == Slice(a, start, Len(a))

(* String.prototype.split(sep) for a one-character separator: split[k] is  *)
(* the list of the pieces of s from position k on.                          *)
Split(s, sep) ==
    LET split[k \in 1..(Len(s) + 1)] ==
            IF \E i \in k..Len(s) : s[i] = sep
            THEN LET i == CHOOSE n \in k..Len(s) :
                              s[n] = sep /\ \A j \in k..(n - 1) : s[j] # sep
                 IN  <<SubSeq(s, k, i - 1)>> \o split[i + 1]
            ELSE <<SubSeq(s, k, Len(s))>>
    IN  split[1]

(* Array.prototype.join(sep): join[k] joins the parts from the k-th on.     *)
Join(parts, sep) ==
    LET join[k \in 1..(Len(parts) + 1)] ==
            IF k > Len(parts) THEN <<>>
            ELSE IF k = Len(parts) THEN parts[k]
            ELSE parts[k] \o <<sep>> \o join[k + 1]
    IN  join[1]

(* Array.prototype.includes.                                                *)
Includes(a, x) == \E i \in 1..Len(a) : a[i] = x

(* A value the provider echoes for ttl: a JSON string or a JSON number.     *)
Str(s) == [t |-> "string", s |-> s]
Num(s) == [t |-> "number", s |-> s]

(* --------------------------- main: the filter -------------------------- *)

(* The stack name captured by                                              *)
(*   /^arn:[^:]+:cloudformation:[^:]+:[^:]+:stack\/([^\/]+)\//            *)
(* as <<name>>, or <<>> when the identifier does not match.                 *)
StackIdMatch(id) ==
    LET colons == {i \in 1..Len(id) : id[i] = ":"}
        nth(n) == CHOOSE i \in colons : Cardinality({j \in colons : j < i}) = n - 1
    IN  IF Cardinality(colons) < 5 THEN <<>>
        ELSE LET c1 == nth(1)  c2 == nth(2)  c3 == nth(3)  c4 == nth(4)  c5 == nth(5)
                 rest == SubSeq(id, c5 + 1, Len(id))
                 slashes == {i \in 3..Len(rest) : rest[i] = "/"}
             IN  IF /\ c1 = 2 /\ id[1] = "arn"
                    /\ c2 > c1 + 1
                    /\ c3 = c2 + 2 /\ id[c2 + 1] = "cloudformation"
                    /\ c4 > c3 + 1
                    /\ c5 > c4 + 1
                    /\ Len(rest) >= 4 /\ rest[1] = "stack" /\ rest[2] = "/"
                    /\ rest[3] # "/"
                    /\ slashes # {}
                 THEN LET e == CHOOSE i \in slashes : \A j \in slashes : i <= j
                      IN  <<SubSeq(rest, 3, e - 1)>>
                 ELSE <<>>

(* part_000 main: stackNames = process.argv.slice(5).                      *)
MultiSkip(stackNames, id) ==
    /\ Len(stackNames) # 0
    /\ ~Includes(stackNames, id)
    /\ LET m == StackIdMatch(id)
       IN  IF m = <<>> THEN TRUE ELSE ~Includes(stackNames, m[1])

(* Variant: the single-stack filter compares the whole identifier only.     *)
SingleSkip_ExactOnly(stackNames, id) ==
    LET stackName == IF Len(stackNames) = 0 THEN <<>> ELSE stackNames[1]
    IN  /\ stackName # <<>>
        /\ id # stackName

(* lib main: stackName = process.argv[5] || ''.                            *)
SingleSkip(stackNames, id) ==
    LET stackName == IF Len(stackNames) = 0 THEN <<>> ELSE stackNames[1]
    IN  /\ stackName # <<>>
        /\ id # stackName
        /\ LET m == StackIdMatch(id)
           IN  IF m = <<>> THEN TRUE ELSE m[1] # stackName

(* TypeScript main, lines 340-348: the loop has no stack filter and         *)
(* process.argv[5] is never read.                                           *)
TsSkip(stackNames, id) == FALSE

Skipped(b, stackNames, id) ==
    IF b = "multi" THEN MultiSkip(stackNames, id)
    ELSE IF b = "single" THEN SingleSkip(stackNames, id)
    ELSE TsSkip(stackNames, id)

(* ------------------------- main: the name parser ----------------------- *)

(* Variant: the tag is matched without regard to case.                      *)
MatchesTag_AnyCase(name) ==
    Len(name) >= 2 /\ name[1] \in {"ClouDNS", "cloudns", "CLOUDNS"} /\ name[2] = ":"

(* exportObj.Name.match(/^ClouDNS:/)                                       *)
MatchesTag(name) == Len(name) >= 2 /\ name[1] = "ClouDNS" /\ name[2] = ":"

(* nameParts[1]; a name that matches the tag has at least two parts.        *)
ResourceType(name) == Split(name, ":")[2]
(* Variant: the type segment is kept in the hostname.                       *)
ResourceName_WithType(name) == Join(SliceFrom(Split(name, ":"), 1), ".")

(* nameParts.slice(2).join('.')                                             *)
ResourceName(name) == Join(SliceFrom(Split(name, ":"), 2), ".")

(* -------------------- autoDetectCloudnsHostAndZone --------------------- *)

NameParts(name) == Split(name, ".")
HostName1(name) == Join(Slice(NameParts(name), 0, Len(NameParts(name)) - 2), ".")
ZoneName1(name) == Join(SliceFrom(NameParts(name), Len(NameParts(name)) - 2), ".")
(* Variant: the host of the second candidate is cut like that of the first. *)
HostName2_TwoOff(name) == Join(Slice(NameParts(name), 0, Len(NameParts(name)) - 2), ".")
HostName2(name) == Join(Slice(NameParts(name), 0, Len(NameParts(name)) - 3), ".")
ZoneName2(name) == Join(SliceFrom(NameParts(name), Len(NameParts(name)) - 3), ".")

(* Variant: the 3-label candidate is tested first.                          *)
PickZone_ThreeFirst(zoneName1, zoneName2, r1, r2) ==
    IF r2.status = "1" THEN zoneName2
    ELSE IF r1.status = "1" THEN zoneName1 ELSE <<>>

(* Variant: the 3-label candidate is taken without testing its status.      *)
PickZone_Untested(zoneName1, zoneName2, r1, r2) ==
    IF r1.status = "1" THEN zoneName1 ELSE zoneName2

(* zoneResponse1.status === '1' ? zoneName1 : zoneResponse2.status === '1' ? zoneName2 : '' *)
PickZone(zoneName1, zoneName2, r1, r2) ==
    IF r1.status = "1" THEN zoneName1
    ELSE IF r2.status = "1" THEN zoneName2 ELSE <<>>
PickHost(hostName1, hostName2, r1, r2) ==
    IF r1.status = "1" THEN hostName1
    ELSE IF r2.status = "1" THEN hostName2 ELSE <<>>

(* -------------------- createOrUpdateCloudnsResource -------------------- *)

(* Variant: the ttl is left out of the comparison.                          *)
SameAsTarget_NoTtl(existing, hostName, type, ttlValue, value) ==
    /\ existing # <<>>
    /\ existing[1].host = hostName
    /\ existing[1].type = type
    /\ existing[1].record = value

(* Variant: the ttl is compared as a number.                                *)
SameAsTarget_NumTtl(existing, hostName, type, ttlValue, value) ==
    /\ existing # <<>>
    /\ existing[1].host = hostName
    /\ existing[1].type = type
    /\ existing[1].ttl = Num(ttlValue)
    /\ existing[1].record = value

(* Variant: the record value is compared with the host.                     *)
SameAsTarget_WrongField(existing, hostName, type, ttlValue, value) ==
    /\ existing # <<>>
    /\ existing[1].host = hostName
    /\ existing[1].type = type
    /\ existing[1].ttl = Str(ttlValue)
    /\ existing[1].record = hostName

(* The four conjuncts of the if: existingRecord?.x === target.              *)
SameAsTarget(existing, hostName, type, ttlValue, value) ==
    /\ existing # <<>>
    /\ existing[1].host = hostName
    /\ existing[1].type = type
    /\ existing[1].ttl = Str(ttlValue)
    /\ existing[1].record = value

(* Variant: any first entry counts as a record to modify.                   *)
HasId_Any(existing) == existing # <<>>

(* existingRecord?.id is truthy.                                            *)
HasId(existing) == existing # <<>> /\ existing[1].id # <<>>

(* Variant: a record that exists is left as it is.                          *)
Decision_KeepExisting(existing, hostName, type, ttlValue, value) ==
    IF existing # <<>> THEN "OK" ELSE "CREATE"

(* Variant: whatever is not equal to the target is created.                 *)
Decision_NeverUpdate(existing, hostName, type, ttlValue, value) ==
    IF SameAsTarget(existing, hostName, type, ttlValue, value) THEN "OK" ELSE "CREATE"

(* Variant: the id is tested before the comparison.                         *)
Decision_IdFirst(existing, hostName, type, ttlValue, value) ==
    IF HasId(existing) THEN "UPDATE"
    ELSE IF SameAsTarget(existing, hostName, type, ttlValue, value) THEN "OK" ELSE "CREATE"

(* lines 100, 104, 119: the if / else if / else.                            *)
Decision(existing, hostName, type, ttlValue, value) ==
    IF SameAsTarget(existing, hostName, type, ttlValue, value) THEN "OK"
    ELSE IF HasId(existing) THEN "UPDATE" ELSE "CREATE"

(* ------------------------------ inputs --------------------------------- *)

V1 == <<"d123", ".", "cloudfront", ".", "net">>
V2 == <<"d456", ".", "cloudfront", ".", "net">>

ArnMy == <<"arn", ":", "aws", ":", "cloudformation", ":", "eu-west-1", ":", "111",
           ":", "stack", "/", "my-stack", "/", "abcd">>
ArnOther == <<"arn", ":", "aws", ":", "cloudformation", ":", "eu-west-1", ":", "111",
              ":", "stack", "/", "other-stack", "/", "efgh">>

Export(n, v, id) == [Name |-> n, Value |-> v, ExportingStackId |-> id]

(* The exports a listing is drawn from.                                     *)
Catalogue ==
    { Export(<<"ClouDNS", ":", "CNAME", ":", "myhost", ":", "example", ":", "org">>, V1, ArnMy),
      Export(<<"ClouDNS", ":", "CNAME", ":", "myhost", ":", "example", ":", "org">>, V2, ArnOther),
      Export(<<"ClouDNS", ":", "A", ":", "example", ":", "org">>, V1, <<"my-stack">>),
      Export(<<"ClouDNS", ":", "CNAME", ":", "www", ":", "example", ":", "co", ":", "uk">>, V1, ArnOther),
      Export(<<"ClouDNS", ":", "CNAME", ":", "www", ":", "example", ":", "com">>, V1, ArnMy),
      Export(<<"cloudns", ":", "A", ":", "example", ":", "org">>, V1, ArnMy),
      Export(<<"ClouDNS", ":", "A">>, V1, <<>>),
      Export(<<"ClouDNS", ":", "A", ":", "example", ":", "constructor">>, V1, ArnMy),
      Export(<<"ClouDNS", ":", "A", ":", ":", "example", ":", "org">>, V1, ArnMy) }

Listings == UNION { [1..n -> Catalogue] : n \in 0..MaxExports }

(* The command lines: [user] and [pwparam] say whether process.argv[2] and  *)
(* process.argv[3] are given, ttl is process.argv[4] ('' when absent) and   *)
(* stacks is process.argv.slice(5).                                         *)
Argv(u, p, ttl, stacks) == [user |-> u, pwparam |-> p, ttl |-> ttl, stacks |-> stacks]
CommandLines ==
    { Argv(TRUE, TRUE, <<>>, <<>>),
      Argv(TRUE, TRUE, <<"3600">>, << <<"my-stack">> >>),
      Argv(TRUE, TRUE, <<>>, << <<"other-stack">>, <<"my-stack">> >>),
      Argv(FALSE, FALSE, <<>>, <<>>),
      Argv(TRUE, FALSE, <<>>, <<>>) }

(* ListExports page lengths.                                                *)
PageSizes == {1, 2}

Dom(a, b) == <<a, ".", b>>
Dom3(a, b, c) == <<a, ".", b, ".", c>>

(* A record of the provider.  records.json answers an object whose keys are *)
(* the record ids; an entry without an id stands under the key "0".         *)
Rec(id, zone, host, type, ttl, record) ==
    [key |-> IF id = <<>> THEN <<"0">> ELSE id,
     id |-> id, zone |-> zone, host |-> host, type |-> type, ttl |-> ttl, record |-> record]

ZonesA == { Dom("example", "org"), Dom3("example", "co", "uk"), Dom("example", "com") }
ZonesB == { Dom("example", "org"), Dom3("myhost", "example", "org"), Dom("co", "uk"),
            Dom3("example", "co", "uk"), Dom("example", "com") }
ZonesC == { <<"org">>, Dom("co", "uk"), Dom3("myhost", "example", "org"),
            <<"constructor">> }

(* The provider before the first run: the zones registered on the account   *)
(* and the records it holds, in the order in which it lists them.  An id of *)
(* <<>> is an entry without an id.                                          *)
Providers ==
    { [zones |-> ZonesA,
       store |->
         << Rec(<<"1">>, Dom("example", "org"), <<"myhost">>, <<"CNAME">>, Str(<<"300">>), V1),
            Rec(<<"2">>, Dom("example", "org"), <<>>, <<"A">>, Num(<<"300">>), V1),
            Rec(<<"4">>, Dom3("example", "co", "uk"), <<"www">>, <<"CNAME">>, Str(<<"300">>), V1),
            Rec(<<"3">>, Dom3("example", "co", "uk"), <<"www">>, <<"CNAME">>, Str(<<"300">>), V2) >>],
      [zones |-> ZonesB,
       store |->
         << Rec(<<>>, Dom("example", "org"), <<"myhost">>, <<"CNAME">>, Str(<<"300">>), V2),
            Rec(<<"2">>, Dom("example", "org"), <<"myhost">>, <<"CNAME">>, Str(<<"300">>), V1),
            Rec(<<"3">>, Dom("co", "uk"), <<"www", ".", "example">>, <<"CNAME">>, Str(<<"300">>), V2),
            Rec(<<"4">>, Dom("co", "uk"), <<"www", ".", "example">>, <<"CNAME">>, Str(<<"300">>), V1),
            Rec(<<>>, Dom("example", "org"), <<>>, <<"A">>, Str(<<"300">>), V1) >>],
      [zones |-> ZonesC,
       store |->
         << Rec(<<"7">>, <<"org">>, <<"example">>, <<"A">>, Str(<<"300">>), V2),
            Rec(<<>>, Dom("co", "uk"), <<"www", ".", "example">>, <<"CNAME">>, Str(<<"300">>), V2) >>] }

(* ------------------------------- state --------------------------------- *)

VARIABLES
    build,      \* "multi" (part_000), "single" (lib) or "ts" (part_000, source)
    argv,       \* [user, pwparam: BOOLEAN, ttl: string, stacks: seq of strings]
    listing,    \* the exports ListExports pages through
    pageSize,   \* exports per page
    zones,      \* provider: registered zones
    store,      \* provider: records, in listing order
    nextId,     \* provider: next record id
    run,        \* which run of the program this is
    pc,         \* where main is
    exitCode,   \* -1 while running
    zoneCache,  \* main's zoneCache object
    nextToken,  \* main's nextToken; 0 is undefined
    page,       \* the ListExports response being iterated
    idx,        \* position of the for-of loop in page.Exports
    cur,        \* locals of createOrUpdateCloudnsResource / autoDetect, and for
                \* the record: exp, the export's position in the listing,
                \* decision, the branch taken, before, the provider's records
                \* when the records query was answered
    inflight,   \* network calls awaiting their response
    calls,      \* every network call issued so far
    visited,    \* what became of every export the loop has visited
    out,        \* console.log lines
    err,        \* console.error lines
    thrown      \* the error that rejected main, <<>> if none

vars == <<build, argv, listing, pageSize, zones, store, nextId, run, pc, exitCode,
          zoneCache, nextToken, page, idx, cur, inflight, calls, visited, out, err, thrown>>

input == <<build, argv, listing, pageSize, zones>>
provider == <<store, nextId>>

NoResponse == [status |-> "none"]
NoCur ==
    [exp |-> 0, name |-> <<>>, type |-> <<>>, value |-> <<>>, ttl |-> <<>>,
     hostName1 |-> <<>>, zoneName1 |-> <<>>, hostName2 |-> <<>>, zoneName2 |-> <<>>,
     zoneResponse1 |-> NoResponse, zoneResponse2 |-> NoResponse,
     zoneName |-> <<>>, hostName |-> <<>>, existing |-> <<>>,
     decision |-> "", before |-> <<>>, result |-> NoResponse]

(* Variant: another default.                                                *)
TtlValue_Default3600(a) == IF a.ttl = <<>> THEN <<"3600">> ELSE a.ttl

(* process.argv[4] || '300'                                                 *)
TtlValue(a) == IF a.ttl = <<>> THEN <<"300">> ELSE a.ttl

Init ==
    /\ build \in {"multi", "single", "ts"}
    /\ argv \in CommandLines
    /\ listing \in Listings
    /\ pageSize \in PageSizes
    /\ \E p \in Providers : zones = p.zones /\ store = p.store
    \* a command line without credentials never reads the other inputs
    /\ (~argv.user \/ ~argv.pwparam) => listing = <<>> /\ zones = ZonesA
    /\ pageSize <= Max(Len(listing), 1)
    \* the builds differ in the filter alone: the lib build and the TypeScript
    \* source run on account A
    /\ build # "multi" => zones = ZonesA
    \* an export name with an empty segment is followed in the multi-stack
    \* build on account B, where example.org is registered
    /\ (\E i \in 1..Len(listing) : Includes(Split(listing[i].Name, ":"), <<>>))
           => build = "multi" /\ zones = ZonesB
    /\ nextId = 100
    /\ run = 1
    /\ pc = "start"
    /\ exitCode = -1
    /\ zoneCache = << >>
    /\ nextToken = 0
    /\ page = [Exports |-> <<>>, NextToken |-> 0]
    /\ idx = 1
    /\ cur = NoCur
    /\ inflight = {}
    /\ calls = <<>>
    /\ visited = <<>>
    /\ out = <<>>
    /\ err = <<>>
    /\ thrown = <<>>

(* ------------------------------ provider ------------------------------- *)

(* GET /dns/get-zone-info.json                                              *)
ZoneInfo(z) == [status |-> IF z \in zones THEN "1" ELSE "Failed"]

(* Variant: the query is answered with all records of the zone.             *)
RecordsOf_WholeZone(s, z, h, t) == SelectSeq(s, LAMBDA r : r.zone = z)

(* GET /dns/records.json: the records of (zone, host, type), in order.      *)
RecordsOf(s, z, h, t) ==
    SelectSeq(s, LAMBDA r : r.zone = z /\ r.host = h /\ r.type = t)

(* POST /dns/add-record.json stores what it was sent under a fresh id.      *)
Added(s, id, c) ==
    Append(s, Rec(id, c.domain, c.host, c.type, Str(c.ttl), c.record))

(* POST /dns/mod-record.json overwrites the record of that id in the zone.  *)
Modified(s, c) ==
    [i \in 1..Len(s) |->
        IF s[i].id = c.id /\ s[i].zone = c.domain
        THEN Rec(s[i].id, s[i].zone, c.host, c.type, Str(c.ttl), c.record)
        ELSE s[i]]

(* What a mutation answers when it does not succeed.                        *)
FailedResults ==
    { [status |-> "Failed", statusMessage |-> <<>>, statusDescription |-> <<"Invalid record">>],
      [status |-> "Failed", statusMessage |-> <<"Limit reached">>, statusDescription |-> <<"Failed">>] }

(* What a mutation answers when it succeeds.                                *)
SuccessResult ==
    [status |-> "Success", statusMessage |-> <<>>,
     statusDescription |-> <<"The record was added successfully.">>]

(* The body of the response when call c is answered with a status that is  *)
(* not ok.                                                                  *)
ErrorBody(c) ==
    IF c.op = "get-zone-info" THEN <<"Bad Gateway">> ELSE <<"Invalid authentication">>

(* ListExports: the page a token stands for; token 0 is no token.           *)
PageOf(token) ==
    LET p == IF token = 0 THEN 1 ELSE token
    IN  [Exports |-> SubSeq(listing, (p - 1) * pageSize + 1, Min(p * pageSize, Len(listing))),
         NextToken |-> IF p * pageSize < Len(listing) THEN p + 1 ELSE 0]

(* ------------------------------ bookkeeping ---------------------------- *)

Call(op, domain, host, type, record, ttl, id, token) ==
    [run |-> run, exp |-> cur.exp, op |-> op, domain |-> domain, host |-> host,
     type |-> type, record |-> record, ttl |-> ttl, id |-> id, token |-> token]

AwsCall(op, token) ==
    [run |-> run, exp |-> 0, op |-> op, domain |-> <<>>, host |-> <<>>,
     type |-> <<>>, record |-> <<>>, ttl |-> <<>>, id |-> <<>>, token |-> token]

(* Position of the loop's export in the whole listing.                      *)
ExportNo == (IF nextToken = 0 THEN 0 ELSE nextToken - 1) * pageSize + idx

Issue(c) == /\ inflight' = inflight \cup {c}
            /\ calls' = Append(calls, c)

TheCall == CHOOSE c \in inflight : TRUE

LogLine(kind) ==
    [run |-> run, exp |-> cur.exp, kind |-> kind, name |-> cur.name, type |-> cur.type,
     ttl |-> cur.ttl, value |-> cur.value, zone |-> cur.zoneName, host |-> cur.hostName,
     at |-> Len(calls)]

Visit(fate) == visited' = Append(visited, [run |-> run, exp |-> ExportNo, fate |-> fate])

(* ------------------------------- main ---------------------------------- *)

(* Variant: the password is requested before the arguments are looked at.   *)
Start_FetchFirst ==
    /\ pc = "start"
    /\ out' = Append(out, [LogLine("BANNER") EXCEPT !.exp = 0])
    /\ Issue(AwsCall("GetParameter", 0))
    /\ pc' = "awaitParameter"
    /\ zoneCache' = << >>
    /\ UNCHANGED <<input, provider, run, exitCode, nextToken, page, idx, cur, visited,
                   err, thrown>>

(* main, lines 136-154: argv, the usage exits, ssm.send.                    *)
Start ==
    /\ pc = "start"
    /\ out' = Append(out, [LogLine("BANNER") EXCEPT !.exp = 0])
    /\ IF ~argv.user \/ ~argv.pwparam
       THEN /\ err' = Append(err, [kind |-> "Usage", text |-> <<>>])
            /\ exitCode' = 1
            /\ pc' = "exited"
            /\ UNCHANGED <<inflight, calls>>
       ELSE /\ Issue(AwsCall("GetParameter", 0))
            /\ pc' = "awaitParameter"
            /\ UNCHANGED <<err, exitCode>>
    /\ zoneCache' = << >>
    /\ UNCHANGED <<input, provider, run, nextToken, page, idx, cur, visited, thrown>>

(* main, lines 155-161: the password arrives; first ListExports.            *)
GetParameterDone ==
    /\ pc = "awaitParameter"
    /\ inflight' = {AwsCall("ListExports", nextToken)}
    /\ calls' = Append(calls, AwsCall("ListExports", nextToken))
    /\ pc' = "awaitExports"
    /\ UNCHANGED <<input, provider, run, exitCode, zoneCache, nextToken, page, idx, cur,
                   visited, out, err, thrown>>

(* main, lines 159-162: a page arrives; the for-of loop starts.             *)
ListExportsDone ==
    /\ pc = "awaitExports"
    /\ inflight' = {}
    /\ page' = PageOf(nextToken)
    /\ idx' = 1
    /\ pc' = "loop"
    /\ UNCHANGED <<input, provider, run, exitCode, zoneCache, nextToken, cur, calls,
                   visited, out, err, thrown>>

(* Variant: the loop ends after the first page.                             *)
EndOfPage_FirstPageOnly ==
    /\ pc = "loop"
    /\ idx > Len(page.Exports)
    /\ nextToken' = 0
    /\ pc' = "done"
    /\ exitCode' = 0
    /\ UNCHANGED <<input, provider, run, zoneCache, page, idx, cur, inflight, calls,
                   visited, out, err, thrown>>

(* main, lines 179-180: the page is exhausted.                              *)
EndOfPage ==
    /\ pc = "loop"
    /\ idx > Len(page.Exports)
    /\ nextToken' = page.NextToken
    /\ IF page.NextToken # 0
       THEN /\ Issue(AwsCall("ListExports", page.NextToken))
            /\ pc' = "awaitExports"
            /\ UNCHANGED exitCode
       ELSE /\ pc' = "done"
            /\ exitCode' = 0
            /\ UNCHANGED <<inflight, calls>>
    /\ UNCHANGED <<input, provider, run, zoneCache, page, idx, cur, visited, out, err, thrown>>

(* main, lines 163-170: continue.                                           *)
SkipExport ==
    /\ pc = "loop"
    /\ idx <= Len(page.Exports)
    /\ Skipped(build, argv.stacks, page.Exports[idx].ExportingStackId)
    /\ Visit("skipped")
    /\ idx' = idx + 1
    /\ UNCHANGED <<input, provider, run, pc, exitCode, zoneCache, nextToken, page, cur,
                   inflight, calls, out, err, thrown>>

(* main, line 171: the name does not match /^ClouDNS:/.                     *)
IgnoreExport ==
    /\ pc = "loop"
    /\ idx <= Len(page.Exports)
    /\ ~Skipped(build, argv.stacks, page.Exports[idx].ExportingStackId)
    /\ ~MatchesTag(page.Exports[idx].Name)
    /\ Visit("ignored")
    /\ idx' = idx + 1
    /\ UNCHANGED <<input, provider, run, pc, exitCode, zoneCache, nextToken, page, cur,
                   inflight, calls, out, err, thrown>>

(* main, lines 171-176: parse the name, call createOrUpdateCloudnsResource, *)
(* which calls autoDetectCloudnsHostAndZone: lines 60-66, the candidates.   *)
BeginDirective ==
    /\ pc = "loop"
    /\ idx <= Len(page.Exports)
    /\ ~Skipped(build, argv.stacks, page.Exports[idx].ExportingStackId)
    /\ MatchesTag(page.Exports[idx].Name)
    /\ Visit("directive")
    /\ \E resourceName \in {ResourceName(page.Exports[idx].Name)} :
         cur' = [NoCur EXCEPT !.exp = ExportNo,
                              !.name = resourceName,
                              !.type = ResourceType(page.Exports[idx].Name),
                              !.value = page.Exports[idx].Value,
                              !.ttl = TtlValue(argv),
                              !.hostName1 = HostName1(resourceName),
                              !.zoneName1 = ZoneName1(resourceName),
                              !.hostName2 = HostName2(resourceName),
                              !.zoneName2 = ZoneName2(resourceName)]
    /\ pc' = "zone1"
    /\ UNCHANGED <<input, provider, run, exitCode, zoneCache, nextToken, page, idx,
                   inflight, calls, out, err, thrown>>

(* -------------------- autoDetectCloudnsHostAndZone --------------------- *)

(* Variant: only a zone reported as registered counts as cached.            *)
Cached_OnlyRegistered(z) ==
    IF z \in DOMAIN zoneCache THEN zoneCache[z].status = "1" ELSE FALSE

(* zoneCache is a plain object: a name it has no property for is looked up  *)
(* in Object.prototype.                                                     *)
ObjectPrototype ==
    { <<"constructor">>, <<"__proto__">>, <<"hasOwnProperty">>, <<"isPrototypeOf">>,
      <<"propertyIsEnumerable">>, <<"toLocaleString">>, <<"toString">>, <<"valueOf">>,
      <<"__defineGetter__">>, <<"__defineSetter__">>, <<"__lookupGetter__">>,
      <<"__lookupSetter__">> }

(* An inherited member read as a response: its status is undefined.         *)
Inherited == [status |-> "undefined"]

(* zoneCache[zoneName]                                                      *)
Lookup(z) ==
    IF z \in DOMAIN zoneCache THEN zoneCache[z]
    ELSE IF z \in ObjectPrototype THEN Inherited
    ELSE NoResponse

(* zoneCache[zoneName] is truthy: a response object was stored under it, or *)
(* the name is that of a member of Object.prototype.                        *)
Cached(z) == z \in DOMAIN zoneCache \/ z \in ObjectPrototype

(* Variant: the cache keeps the latest answer only.                         *)
Remember_LatestOnly(z, r) == zoneCache' = [k \in {z} |-> r]

(* lines 72, 77: zoneCache[zoneName] = zoneResponse; an assignment to       *)
(* __proto__ adds no property.                                              *)
Remember(z, r) ==
    IF z = <<"__proto__">> THEN zoneCache' = zoneCache
    ELSE zoneCache' = [k \in DOMAIN zoneCache \cup {z} |->
                          IF k = z THEN r ELSE zoneCache[k]]

ZoneProbe(z) == Call("get-zone-info", z, <<>>, <<>>, <<>>, <<>>, <<>>, 0)

(* Variant: both probes are sent before either is awaited.                  *)
Zone1Lookup_Both ==
    /\ pc = "zone1"
    /\ inflight' = {ZoneProbe(cur.zoneName1), ZoneProbe(cur.zoneName2)}
    /\ calls' = calls \o <<ZoneProbe(cur.zoneName1), ZoneProbe(cur.zoneName2)>>
    /\ pc' = "awaitZone1"
    /\ UNCHANGED <<input, provider, run, exitCode, zoneCache, nextToken, page, idx, cur,
                   visited, out, err, thrown>>

(* lines 68-72: zoneCache[zoneName1] || await cloudnsRestCall(...)          *)
Zone1Lookup ==
    /\ pc = "zone1"
    /\ IF Cached(cur.zoneName1)
       THEN /\ cur' = [cur EXCEPT !.zoneResponse1 = Lookup(cur.zoneName1)]
            /\ Remember(cur.zoneName1, Lookup(cur.zoneName1))
            /\ pc' = "zone2"
            /\ UNCHANGED <<inflight, calls>>
       ELSE /\ Issue(ZoneProbe(cur.zoneName1))
            /\ pc' = "awaitZone1"
            /\ UNCHANGED <<cur, zoneCache>>
    /\ UNCHANGED <<input, provider, run, exitCode, nextToken, page, idx,
                   visited, out, err, thrown>>

(* lines 69-72: the probe answers; zoneCache[zoneName1] = zoneResponse1.    *)
Zone1Response ==
    /\ pc = "awaitZone1"
    /\ inflight' = {}
    /\ cur' = [cur EXCEPT !.zoneResponse1 = ZoneInfo(cur.zoneName1)]
    /\ Remember(cur.zoneName1, ZoneInfo(cur.zoneName1))
    /\ pc' = "zone2"
    /\ UNCHANGED <<input, provider, run, exitCode, nextToken, page, idx, calls,
                   visited, out, err, thrown>>

(* Variant: the second candidate is looked up only when the first failed.   *)
Zone2Lookup_OnlyIfNeeded ==
    /\ pc = "zone2"
    /\ IF cur.zoneResponse1.status = "1"
       THEN /\ cur' = [cur EXCEPT !.zoneResponse2 = [status |-> "Failed"]]
            /\ pc' = "resolve"
            /\ UNCHANGED <<inflight, calls>>
       ELSE IF Cached(cur.zoneName2)
       THEN /\ cur' = [cur EXCEPT !.zoneResponse2 = Lookup(cur.zoneName2)]
            /\ pc' = "resolve"
            /\ UNCHANGED <<inflight, calls>>
       ELSE /\ Issue(ZoneProbe(cur.zoneName2))
            /\ pc' = "awaitZone2"
            /\ UNCHANGED cur
    /\ UNCHANGED <<input, provider, run, exitCode, zoneCache, nextToken, page, idx,
                   visited, out, err, thrown>>

(* Variant: a name of fewer than 3 labels gets no second lookup.            *)
Zone2Lookup_ShortCircuit ==
    /\ pc = "zone2"
    /\ IF Len(NameParts(cur.name)) < 3
       THEN /\ cur' = [cur EXCEPT !.zoneResponse2 = [status |-> "Failed"]]
            /\ pc' = "resolve"
            /\ UNCHANGED <<inflight, calls>>
       ELSE IF Cached(cur.zoneName2)
       THEN /\ cur' = [cur EXCEPT !.zoneResponse2 = Lookup(cur.zoneName2)]
            /\ pc' = "resolve"
            /\ UNCHANGED <<inflight, calls>>
       ELSE /\ Issue(ZoneProbe(cur.zoneName2))
            /\ pc' = "awaitZone2"
            /\ UNCHANGED cur
    /\ UNCHANGED <<input, provider, run, exitCode, zoneCache, nextToken, page, idx,
                   visited, out, err, thrown>>

(* lines 73-77: zoneCache[zoneName2] || await cloudnsRestCall(...)          *)
Zone2Lookup ==
    /\ pc = "zone2"
    /\ IF Cached(cur.zoneName2)
       THEN /\ cur' = [cur EXCEPT !.zoneResponse2 = Lookup(cur.zoneName2)]
            /\ Remember(cur.zoneName2, Lookup(cur.zoneName2))
            /\ pc' = "resolve"
            /\ UNCHANGED <<inflight, calls>>
       ELSE /\ Issue(ZoneProbe(cur.zoneName2))
            /\ pc' = "awaitZone2"
            /\ UNCHANGED <<cur, zoneCache>>
    /\ UNCHANGED <<input, provider, run, exitCode, nextToken, page, idx,
                   visited, out, err, thrown>>

(* lines 74-77: the probe answers; zoneCache[zoneName2] = zoneResponse2.    *)
Zone2Response ==
    /\ pc = "awaitZone2"
    /\ inflight' = {}
    /\ cur' = [cur EXCEPT !.zoneResponse2 = ZoneInfo(cur.zoneName2)]
    /\ Remember(cur.zoneName2, ZoneInfo(cur.zoneName2))
    /\ pc' = "resolve"
    /\ UNCHANGED <<input, provider, run, exitCode, nextToken, page, idx, calls,
                   visited, out, err, thrown>>

(* Variant: the failing export is given up and the loop goes on.            *)
ZoneNotFound_Continue ==
    /\ pc = "resolve"
    /\ PickZone(cur.zoneName1, cur.zoneName2, cur.zoneResponse1, cur.zoneResponse2) = <<>>
    /\ thrown' = [kind |-> "Zone Not Found", text |-> cur.name]
    /\ idx' = idx + 1
    /\ pc' = "loop"
    /\ UNCHANGED <<input, provider, run, exitCode, zoneCache, nextToken, page, cur,
                   inflight, calls, visited, out, err>>

(* lines 80-85: neither zone exists.                                        *)
ZoneNotFound ==
    /\ pc = "resolve"
    /\ PickZone(cur.zoneName1, cur.zoneName2, cur.zoneResponse1, cur.zoneResponse2) = <<>>
    /\ thrown' = [kind |-> "Zone Not Found", text |-> cur.name]
    /\ pc' = "aborted"
    /\ UNCHANGED <<input, provider, run, exitCode, zoneCache, nextToken, page, idx, cur,
                   inflight, calls, visited, out, err>>

(* Variant: the split is returned without the test for an empty zone.       *)
Resolved_Unchecked ==
    /\ pc = "resolve"
    /\ LET z == PickZone(cur.zoneName1, cur.zoneName2, cur.zoneResponse1, cur.zoneResponse2)
           h == PickHost(cur.hostName1, cur.hostName2, cur.zoneResponse1, cur.zoneResponse2)
       IN  /\ cur' = [cur EXCEPT !.zoneName = z, !.hostName = h]
           /\ Issue([Call("records", z, h, cur.type, <<>>, <<>>, <<>>, 0) EXCEPT !.exp = cur.exp])
    /\ pc' = "awaitRecords"
    /\ UNCHANGED <<input, provider, run, exitCode, zoneCache, nextToken, page, idx,
                   visited, out, err, thrown>>

(* lines 86-98: the split is returned; the records query is issued.         *)
(* Variant: the records query goes to the first candidate, whichever zone   *)
(* was resolved.                                                            *)
Resolved_QueryFirstCandidate ==
    /\ pc = "resolve"
    /\ PickZone(cur.zoneName1, cur.zoneName2, cur.zoneResponse1, cur.zoneResponse2) # <<>>
    /\ LET z == PickZone(cur.zoneName1, cur.zoneName2, cur.zoneResponse1, cur.zoneResponse2)
           h == PickHost(cur.hostName1, cur.hostName2, cur.zoneResponse1, cur.zoneResponse2)
       IN  /\ cur' = [cur EXCEPT !.zoneName = z, !.hostName = h]
           /\ Issue([Call("records", cur.zoneName1, cur.hostName1, cur.type,
                          <<>>, <<>>, <<>>, 0) EXCEPT !.exp = cur.exp])
    /\ pc' = "awaitRecords"
    /\ UNCHANGED <<input, provider, run, exitCode, zoneCache, nextToken, page, idx,
                   visited, out, err, thrown>>

Resolved ==
    /\ pc = "resolve"
    /\ PickZone(cur.zoneName1, cur.zoneName2, cur.zoneResponse1, cur.zoneResponse2) # <<>>
    /\ LET z == PickZone(cur.zoneName1, cur.zoneName2, cur.zoneResponse1, cur.zoneResponse2)
           h == PickHost(cur.hostName1, cur.hostName2, cur.zoneResponse1, cur.zoneResponse2)
       IN  /\ cur' = [cur EXCEPT !.zoneName = z, !.hostName = h]
           /\ Issue([Call("records", z, h, cur.type, <<>>, <<>>, <<>>, 0) EXCEPT !.exp = cur.exp])
    /\ pc' = "awaitRecords"
    /\ UNCHANGED <<input, provider, run, exitCode, zoneCache, nextToken, page, idx,
                   visited, out, err, thrown>>

(* -------------------- createOrUpdateCloudnsResource -------------------- *)

(* The keys that are array indices, and the number each one denotes.        *)
IndexKeys == {<<ToString(n)>> : n \in 0..MaxKey}
KeyNumber == [k \in IndexKeys |-> CHOOSE n \in 0..MaxKey : <<ToString(n)>> = k]

(* Object.values(recordsResponse): the entries in property order, that is   *)
(* the keys that are array indices in ascending numeric order, then the     *)
(* other keys in the order of the response text.                            *)
Values(rs) ==
    LET indexed == {i \in 1..Len(rs) : rs[i].key \in IndexKeys}
        others == (1..Len(rs)) \ indexed
        n == Cardinality(indexed)
        place(i) == IF i \in indexed
                    THEN 1 + Cardinality({j \in indexed :
                                 \/ KeyNumber[rs[j].key] < KeyNumber[rs[i].key]
                                 \/ KeyNumber[rs[j].key] = KeyNumber[rs[i].key] /\ j < i})
                    ELSE n + 1 + Cardinality({j \in others : j < i})
    IN  [k \in 1..Len(rs) |-> rs[CHOOSE i \in 1..Len(rs) : place(i) = k]]

(* Variant: the last record returned is taken.                              *)
First_Last(rs) == IF rs = <<>> THEN <<>> ELSE <<Values(rs)[Len(rs)]>>

(* Variant: the first entry of the response text is taken.                  *)
First_TextOrder(rs) == IF rs = <<>> THEN <<>> ELSE <<rs[1]>>

(* Object.values(recordsResponse)[0]                                        *)
First(rs) == IF rs = <<>> THEN <<>> ELSE <<Values(rs)[1]>>

(* Variant: an entry equal to the target is preferred to the first one.     *)
Existing_PreferEqual ==
    LET rs == RecordsOf(store, cur.zoneName, cur.hostName, cur.type)
        equal == {i \in 1..Len(rs) :
                     SameAsTarget(<<rs[i]>>, cur.hostName, cur.type, cur.ttl, cur.value)}
    IN  IF equal = {} THEN First(rs) ELSE <<rs[CHOOSE i \in equal : TRUE]>>

Existing == First(RecordsOf(store, cur.zoneName, cur.hostName, cur.type))

(* lines 99-103: the record exists already; back to main's loop.            *)
DecideOk ==
    /\ pc = "awaitRecords"
    /\ Decision(Existing, cur.hostName, cur.type, cur.ttl, cur.value) = "OK"
    /\ inflight' = {}
    /\ cur' = [cur EXCEPT !.existing = Existing, !.decision = "OK", !.before = store]
    /\ out' = Append(out, LogLine("OK"))
    /\ idx' = idx + 1
    /\ pc' = "loop"
    /\ UNCHANGED <<input, provider, run, exitCode, zoneCache, nextToken, page, calls,
                   visited, err, thrown>>

(* lines 104-114: log UPDATE, issue mod-record.                             *)
DecideUpdate ==
    /\ pc = "awaitRecords"
    /\ Decision(Existing, cur.hostName, cur.type, cur.ttl, cur.value) = "UPDATE"
    /\ cur' = [cur EXCEPT !.existing = Existing, !.decision = "UPDATE", !.before = store]
    /\ out' = Append(out, LogLine("UPDATE"))
    /\ LET c == Call("mod-record", cur.zoneName, cur.hostName, cur.type, cur.value,
                     cur.ttl, Existing[1].id, 0)
       IN  /\ inflight' = {c}
           /\ calls' = Append(calls, c)
    /\ pc' = "awaitMod"
    /\ UNCHANGED <<input, provider, run, exitCode, zoneCache, nextToken, page, idx,
                   visited, err, thrown>>

(* Variant: add-record is issued first and CREATE is logged after it.       *)
DecideCreate_LogAfter ==
    /\ pc = "awaitRecords"
    /\ Decision(Existing, cur.hostName, cur.type, cur.ttl, cur.value) = "CREATE"
    /\ cur' = [cur EXCEPT !.existing = Existing, !.decision = "CREATE", !.before = store]
    /\ LET c == Call("add-record", cur.zoneName, cur.hostName, cur.type, cur.value,
                     cur.ttl, <<>>, 0)
       IN  /\ inflight' = {c}
           /\ calls' = Append(calls, c)
    /\ out' = Append(out, [LogLine("CREATE") EXCEPT !.at = Len(calls')])
    /\ pc' = "awaitAdd"
    /\ UNCHANGED <<input, provider, run, exitCode, zoneCache, nextToken, page, idx,
                   visited, err, thrown>>

(* lines 119-128: log CREATE, issue add-record.                             *)
DecideCreate ==
    /\ pc = "awaitRecords"
    /\ Decision(Existing, cur.hostName, cur.type, cur.ttl, cur.value) = "CREATE"
    /\ cur' = [cur EXCEPT !.existing = Existing, !.decision = "CREATE", !.before = store]
    /\ out' = Append(out, LogLine("CREATE"))
    /\ LET c == Call("add-record", cur.zoneName, cur.hostName, cur.type, cur.value,
                     cur.ttl, <<>>, 0)
       IN  /\ inflight' = {c}
           /\ calls' = Append(calls, c)
    /\ pc' = "awaitAdd"
    /\ UNCHANGED <<input, provider, run, exitCode, zoneCache, nextToken, page, idx,
                   visited, err, thrown>>

(* lines 115-117 and 129-131 with a result whose status is not 'Failed'.    *)
MutationDone ==
    /\ pc \in {"awaitMod", "awaitAdd"}
    /\ pc = "awaitMod" => \E i \in 1..Len(store) :
                              store[i].id = TheCall.id /\ store[i].zone = TheCall.domain
    /\ IF pc = "awaitMod"
       THEN store' = Modified(store, TheCall) /\ UNCHANGED nextId
       ELSE store' = Added(store, <<ToString(nextId)>>, TheCall) /\ nextId' = nextId + 1
    /\ cur' = [cur EXCEPT !.result = SuccessResult]
    /\ inflight' = {}
    /\ idx' = idx + 1
    /\ pc' = "loop"
    /\ UNCHANGED <<input, run, exitCode, zoneCache, nextToken, page, calls,
                   visited, out, err, thrown>>

(* Variant: the description is preferred to the message.                    *)
FailureText_DescriptionFirst(r) ==
    IF r.statusDescription # <<>> THEN r.statusDescription ELSE r.statusMessage

(* lines 116, 130: result.statusMessage || result.statusDescription         *)
FailureText(r) ==
    IF r.statusMessage # <<>> THEN r.statusMessage ELSE r.statusDescription

(* lines 115-117 and 129-131: result.status === 'Failed'.                   *)
MutationFailed ==
    /\ pc \in {"awaitMod", "awaitAdd"}
    /\ \E r \in FailedResults :
          /\ cur' = [cur EXCEPT !.result = r]
          /\ thrown' = [kind |-> IF pc = "awaitMod" THEN "Modify record failed"
                                                    ELSE "Add record failed",
                        text |-> FailureText(r)]
    /\ inflight' = {}
    /\ pc' = "aborted"
    /\ UNCHANGED <<input, provider, run, exitCode, zoneCache, nextToken, page, idx, calls,
                   visited, out, err>>

(* Variant: the error carries the status text, not the body.                *)
TransportError_StatusText(errorText) == [kind |-> "Error", text |-> <<"Service Unavailable">>]

(* line 54: throw new Error(errorText)                                      *)
TransportError(errorText) == [kind |-> "Error", text |-> errorText]

(* Variant: the error is thrown without console.error.                     *)
HttpError_Unlogged ==
    /\ pc \in {"awaitZone1", "awaitZone2", "awaitRecords", "awaitMod", "awaitAdd"}
    /\ thrown' = TransportError(ErrorBody(TheCall))
    /\ inflight' = {}
    /\ pc' = "aborted"
    /\ UNCHANGED <<input, provider, run, exitCode, zoneCache, nextToken, page, idx, cur,
                   calls, visited, out, err>>

(* cloudnsRestCall, lines 51-55: !response.ok.                              *)
HttpError ==
    /\ pc \in {"awaitZone1", "awaitZone2", "awaitRecords", "awaitMod", "awaitAdd"}
    /\ LET errorText == ErrorBody(TheCall)
       IN  /\ err' = Append(err, [kind |-> "HTTP Error", text |-> errorText])
           /\ thrown' = TransportError(errorText)
    /\ inflight' = {}
    /\ pc' = "aborted"
    /\ UNCHANGED <<input, provider, run, exitCode, zoneCache, nextToken, page, idx, cur,
                   calls, visited, out>>

(* The end of the process after main has rejected: the error propagates    *)
(* unhandled and the exit code is non-zero.  main's caller is not part of   *)
(* the source; nothing of main writes the error anywhere on the way.        *)
MainRejected ==
    /\ pc = "aborted"
    /\ exitCode = -1
    /\ exitCode' = 1
    /\ UNCHANGED <<input, provider, run, pc, zoneCache, nextToken, page, idx, cur,
                   inflight, calls, visited, out, err, thrown>>

(* The program is run again after a pass that completed; the repeated pass  *)
(* is followed for the command line without stack names.                    *)
Rerun ==
    /\ pc = "done"
    /\ run = 1
    /\ argv.stacks = <<>>
    /\ run' = 2
    /\ pc' = "start"
    /\ exitCode' = -1
    /\ zoneCache' = << >>
    /\ nextToken' = 0
    /\ page' = [Exports |-> <<>>, NextToken |-> 0]
    /\ idx' = 1
    /\ cur' = NoCur
    /\ UNCHANGED <<input, provider, inflight, calls, visited, out, err, thrown>>

Next ==
    \/ Start
    \/ GetParameterDone
    \/ ListExportsDone
    \/ EndOfPage
    \/ SkipExport
    \/ IgnoreExport
    \/ BeginDirective
    \/ Zone1Lookup
    \/ Zone1Response
    \/ Zone2Lookup
    \/ Zone2Response
    \/ ZoneNotFound
    \/ Resolved
    \/ DecideOk
    \/ DecideUpdate
    \/ DecideCreate
    \/ MutationDone
    \/ MutationFailed
    \/ HttpError
    \/ MainRejected
    \/ Rerun

Spec == Init /\ [][Next]_vars

(* The account's zones are deleted at the provider while a run is under way. *)
ZonesChange ==
    /\ pc \notin {"start", "done", "aborted", "exited"}
    /\ zones # {}
    /\ zones' = {}
    /\ UNCHANGED <<build, argv, listing, pageSize, provider, run, pc, exitCode, zoneCache,
                   nextToken, page, idx, cur, inflight, calls, visited, out, err, thrown>>

NextChanging == Next \/ ZonesChange

(* The runs on an account whose zones may be deleted in between.            *)
ChangingSpec == Init /\ [][NextChanging]_vars

(* The steps main takes by itself: every call that is awaited is answered   *)
(* and the continuation runs.  Whether the program is started again, and    *)
(* what the caller does with a rejected main, is left open.                 *)
MainSteps ==
    \/ Start
    \/ GetParameterDone
    \/ ListExportsDone
    \/ EndOfPage
    \/ SkipExport
    \/ IgnoreExport
    \/ BeginDirective
    \/ Zone1Lookup
    \/ Zone1Response
    \/ Zone2Lookup
    \/ Zone2Response
    \/ ZoneNotFound
    \/ Resolved
    \/ DecideOk
    \/ DecideUpdate
    \/ DecideCreate
    \/ MutationDone
    \/ MutationFailed
    \/ HttpError

FairInit == Init /\ build = "multi" /\ zones = ZonesA
FairSpec == FairInit /\ [][Next]_vars /\ WF_vars(MainSteps)

(***************************************************************************)
(*                              Properties                                 *)
(***************************************************************************)

Mutating == {"add-record", "mod-record"}

(* The decision lines logged so far, in order.                              *)
Decisions == SelectSeq(out, LAMBDA l : l.kind \in {"OK", "UPDATE", "CREATE"})

(* The calls issued for export e of run r.                                  *)
CallsOf(r, e) == SelectSeq(calls, LAMBDA c : c.run = r /\ c.exp = e)
MutationsOf(r, e) == SelectSeq(calls, LAMBDA c : c.run = r /\ c.exp = e /\ c.op \in Mutating)

SameInputs(a, b) ==
    a.name = b.name /\ a.type = b.type /\ a.value = b.value /\ a.ttl = b.ttl

(* The provider stores records under ids and echoes what it was sent.       *)
StoresAndEchoes == \A i \in 1..Len(store) : store[i].id # <<>>

(* Two decision lines next to each other come from two calls of             *)
(* createOrUpdateCloudnsResource in succession.                             *)
Successive == {i \in 1..(Len(Decisions) - 1) : SameInputs(Decisions[i], Decisions[i + 1])}

(* C1, as stated: of two successive calls with identical inputs against a  *)
(* provider that stores and echoes, the first creates or updates and the    *)
(* second is a no-op.                                                       *)
C1_Original ==
    StoresAndEchoes =>
        \A i \in Successive :
            /\ Decisions[i].kind \in {"CREATE", "UPDATE"}
            /\ Decisions[i + 1].kind = "OK"

(* C1, amended: of two successive calls with identical inputs against a     *)
(* provider that stores and echoes, the second logs OK and issues no        *)
(* add-record and no mod-record call, whatever the first one did (create,   *)
(* update, or no-op when the record was there already).                     *)
C1_SecondCallNoOp ==
    StoresAndEchoes =>
        \A i \in Successive :
            /\ Decisions[i].kind \in {"CREATE", "UPDATE", "OK"}
            /\ Decisions[i + 1].kind = "OK"
            /\ MutationsOf(Decisions[i + 1].run, Decisions[i + 1].exp) = <<>>

C1_Witness ==
    /\ StoresAndEchoes
    /\ \E i \in Successive :
          /\ Decisions[i].kind \in {"CREATE", "UPDATE"}
          /\ MutationsOf(Decisions[i].run, Decisions[i].exp) # <<>>
          /\ Decisions[i + 1].kind = "OK"

(* The directives of the first pass never give one (zone, host, type) two   *)
(* different values.                                                        *)
NoConflict ==
    \A i, j \in 1..Len(Decisions) :
        (/\ Decisions[i].run = 1 /\ Decisions[j].run = 1
         /\ Decisions[i].zone = Decisions[j].zone
         /\ Decisions[i].host = Decisions[j].host
         /\ Decisions[i].type = Decisions[j].type)
        => Decisions[i].value = Decisions[j].value

NoMutationInSecondPass == \A i \in 1..Len(calls) : calls[i].run = 2 => calls[i].op \notin Mutating

(* C2, as stated: the pass repeated after a pass that completed issues no   *)
(* add-record and no mod-record call, for every list of exports (read       *)
(* against the provider of C1, which stores and echoes).                    *)
C2_Original == StoresAndEchoes => NoMutationInSecondPass

(* C2, amended: the pass repeated after a pass that completed issues no     *)
(* add-record and no mod-record call, provided the provider stores and      *)
(* echoes and no two exports of the list resolve to the same (zone, host,   *)
(* type) with different values.                                             *)
C2_RepeatedPassNoOp == (StoresAndEchoes /\ NoConflict) => NoMutationInSecondPass

C2_Witness ==
    /\ StoresAndEchoes /\ NoConflict
    /\ run = 2 /\ pc = "done"
    /\ \E i \in 1..Len(calls) : calls[i].run = 1 /\ calls[i].op = "add-record"
    /\ \E i \in 1..Len(calls) : calls[i].run = 1 /\ calls[i].op = "mod-record"
    /\ \E i \in 1..Len(Decisions) : Decisions[i].run = 2

(* The two splits of a dotted name, written out label by label; a name of   *)
(* fewer labels than the split asks for gives what slice gives.             *)
LabelsOf(name) == Split(name, ".")
Dotted(labels) == Join(labels, ".")
TwoLabelSplit(name) ==
    LET l == LabelsOf(name)  n == Len(l)
    IN  IF n <= 2 THEN [zone |-> name, host |-> <<>>]
        ELSE [zone |-> l[n - 1] \o <<".">> \o l[n],
              host |-> Dotted([i \in 1..(n - 2) |-> l[i]])]
ThreeLabelSplit(name) ==
    LET l == LabelsOf(name)  n == Len(l)
    IN  IF n = 1 \/ n = 3 THEN [zone |-> name, host |-> <<>>]
        ELSE IF n = 2 THEN [zone |-> l[2], host |-> l[1]]
        ELSE [zone |-> l[n - 2] \o <<".">> \o l[n - 1] \o <<".">> \o l[n],
              host |-> Dotted([i \in 1..(n - 3) |-> l[i]])]

Registered(z) == ZoneInfo(z).status = "1"
Resolution == [zone |-> cur.zoneName, host |-> cur.hostName]

(* C3: once resolution has returned, the result is the 2-label split        *)
(* whenever the provider reports the 2-label candidate with status "1",     *)
(* also when the 3-label candidate is registered; otherwise the 3-label     *)
(* candidate has status "1" and the result is the 3-label split.            *)
C3_TwoLabelFirst ==
    cur.zoneName # <<>> =>
        IF Registered(TwoLabelSplit(cur.name).zone)
        THEN Resolution = TwoLabelSplit(cur.name)
        ELSE /\ Registered(ThreeLabelSplit(cur.name).zone)
             /\ Resolution = ThreeLabelSplit(cur.name)

C3_Witness ==
    /\ cur.zoneName # <<>>
    /\ Len(LabelsOf(cur.name)) = 3
    /\ Registered(TwoLabelSplit(cur.name).zone)
    /\ Registered(ThreeLabelSplit(cur.name).zone)
    /\ Resolution = TwoLabelSplit(cur.name)
    /\ Resolution # ThreeLabelSplit(cur.name)

(* C4: for a directive neither of whose candidate zones the provider        *)
(* reports with status "1", resolution throws 'Zone Not Found: <name>' and  *)
(* the directive gets no records query, no add-record and no mod-record     *)
(* call: main never gets past resolution.                                   *)
C4_ZoneNotFound ==
    (/\ cur.exp # 0
     /\ ~Registered(TwoLabelSplit(cur.name).zone)
     /\ ~Registered(ThreeLabelSplit(cur.name).zone))
    => /\ pc \in {"zone1", "awaitZone1", "zone2", "awaitZone2", "resolve", "aborted"}
       /\ (pc = "aborted" /\ thrown.kind # "Error")
             => thrown = [kind |-> "Zone Not Found", text |-> cur.name]
       /\ \A i \in 1..Len(calls) :
             (calls[i].run = run /\ calls[i].exp = cur.exp) => calls[i].op = "get-zone-info"

C4_Witness ==
    /\ pc = "aborted"
    /\ thrown = [kind |-> "Zone Not Found", text |-> cur.name]
    /\ Len(LabelsOf(cur.name)) = 3
    /\ Len(CallsOf(run, cur.exp)) = 2

(* The segments of an export name after the tag.                            *)
Tag == <<"ClouDNS", ":">>
StartsWithTag(n) == Len(n) >= Len(Tag) /\ [i \in 1..Len(Tag) |-> n[i]] = Tag
AfterTag(n) == Split([i \in 1..(Len(n) - Len(Tag)) |-> n[i + Len(Tag)]], ":")
TaggedNames == {e.Name : e \in {x \in Catalogue : StartsWithTag(x.Name)}}
SegmentsOfCatalogue == [n \in TaggedNames |-> AfterTag(n)]
SegmentsAfterTag(n) == IF n \in TaggedNames THEN SegmentsOfCatalogue[n] ELSE AfterTag(n)
DirectiveName == listing[cur.exp].Name

(* C5: for a directive, whose export name starts with 'ClouDNS:', the       *)
(* record type is the first colon-separated segment after the tag and the   *)
(* hostname is the remaining segments joined with '.'; in particular        *)
(* 'ClouDNS:CNAME:myhost:example:org' gives CNAME, myhost.example.org and   *)
(* 'ClouDNS:A:example:org' gives A, example.org.                            *)
C5_NameParsing ==
    cur.exp # 0 =>
        /\ StartsWithTag(DirectiveName)
        /\ cur.type = Head(SegmentsAfterTag(DirectiveName))
        /\ cur.name = Dotted(Tail(SegmentsAfterTag(DirectiveName)))
        /\ DirectiveName = <<"ClouDNS", ":", "CNAME", ":", "myhost", ":", "example", ":", "org">>
              => cur.type = <<"CNAME">> /\ cur.name = <<"myhost", ".", "example", ".", "org">>
        /\ DirectiveName = <<"ClouDNS", ":", "A", ":", "example", ":", "org">>
              => cur.type = <<"A">> /\ cur.name = <<"example", ".", "org">>

C5_Witness ==
    /\ cur.exp # 0
    /\ DirectiveName = <<"ClouDNS", ":", "CNAME", ":", "myhost", ":", "example", ":", "org">>
    /\ cur.type = <<"CNAME">>
    /\ cur.name = <<"myhost", ".", "example", ".", "org">>
    /\ \E i \in 1..Len(calls) : calls[i].op = "records" /\ calls[i].type = <<"CNAME">>

Untagged == {e \in 1..Len(listing) : ~StartsWithTag(listing[e].Name)}

(* C6: an export whose name does not start with 'ClouDNS:' never becomes a  *)
(* directive, has no provider call and no log line of its own, raises no    *)
(* error, and once it has been passed over the loop stands at the next      *)
(* export with the pass still going.                                        *)
C6_UntaggedIgnored ==
    \A e \in Untagged :
        /\ \A i \in 1..Len(visited) : visited[i].exp = e => visited[i].fate # "directive"
        /\ \A i \in 1..Len(calls) : calls[i].exp # e
        /\ \A i \in 1..Len(out) : out[i].exp # e
        /\ cur.exp # e
        /\ (/\ visited # <<>>
            /\ visited[Len(visited)] = [run |-> run, exp |-> e, fate |-> "ignored"])
           => /\ pc \in {"loop", "awaitExports", "done"}
              /\ exitCode \in {-1, 0}
              /\ thrown = <<>> /\ err = <<>>
              /\ pc = "loop" => ExportNo = e + 1

C6_Witness ==
    \E i \in 1..(Len(visited) - 1) :
        /\ visited[i].exp \in Untagged
        /\ visited[i].fate = "ignored"
        /\ visited[i + 1] = [run |-> visited[i].run, exp |-> visited[i].exp + 1,
                             fate |-> "directive"]
        /\ CallsOf(visited[i].run, visited[i].exp + 1) # <<>>

(* The names an owning-stack identifier can be matched by: the identifier   *)
(* itself and, if it reads arn:*:*:*:*:stack/<name>/*, that <name>.         *)
NamesOfStack(id) ==
    {id} \cup
    (IF /\ Len(id) >= 14
        /\ id[1] = "arn" /\ id[2] = ":" /\ id[4] = ":" /\ id[6] = ":" /\ id[8] = ":"
        /\ id[10] = ":" /\ id[11] = "stack" /\ id[12] = "/" /\ id[14] = "/"
     THEN {<<id[13]>>} ELSE {})
Filter == {argv.stacks[i] : i \in 1..Len(argv.stacks)}
OwnedByFilter(e) == NamesOfStack(listing[e].ExportingStackId) \cap Filter # {}

(* C7, as stated: an export is skipped, with no provider call made for it,  *)
(* exactly when the filter is not empty and neither its owning-stack        *)
(* identifier nor the <name> of the identifier equals a filter entry.       *)
C7_FilterRule ==
    \A i \in 1..Len(visited) :
        /\ visited[i].fate = "skipped" <=> (Filter # {} /\ ~OwnedByFilter(visited[i].exp))
        /\ visited[i].fate = "skipped" => CallsOf(visited[i].run, visited[i].exp) = <<>>

(* C8, as stated: with more than one stack name on the command line, an     *)
(* export owned by any one of them is processed and an export owned by      *)
(* none of them is skipped.                                                 *)
C8_AnyOfSeveral ==
    Len(argv.stacks) > 1 =>
        \A i \in 1..Len(visited) :
            IF OwnedByFilter(visited[i].exp)
            THEN visited[i].fate \in {"directive", "ignored"}
            ELSE visited[i].fate = "skipped"

(* The first record the provider returned for the directive's query.        *)
Returned == Values(RecordsOf(cur.before, cur.zoneName, cur.hostName, cur.type))
FirstEqualsTarget ==
    /\ Returned # <<>>
    /\ Returned[1].host = cur.hostName
    /\ Returned[1].type = cur.type
    /\ Returned[1].ttl = Str(cur.ttl)
    /\ Returned[1].record = cur.value

(* C9: when the first record returned has host, type, ttl and value all     *)
(* strictly equal to the target, the reconciler logs OK, issues neither     *)
(* add-record nor mod-record, and the provider's records stay as they were. *)
C9_NoOp ==
    (cur.decision # "" /\ FirstEqualsTarget)
    => /\ cur.decision = "OK"
       /\ out[Len(out)].kind = "OK" /\ out[Len(out)].exp = cur.exp /\ out[Len(out)].run = run
       /\ MutationsOf(run, cur.exp) = <<>>
       /\ store = cur.before

C9_Witness ==
    /\ cur.decision = "OK" /\ FirstEqualsTarget
    /\ pc = "loop"
    /\ store = cur.before
    /\ Len(CallsOf(run, cur.exp)) = 3

(* C10: when the first record returned has an id and differs from the       *)
(* target in host, type, ttl or value, the reconciler issues exactly one    *)
(* mod-record call, with the resolved zone, that record's id and the target *)
(* host, type, value and ttl, and no add-record call.                       *)
C10_Update ==
    (/\ cur.decision # ""
     /\ Returned # <<>>
     /\ Returned[1].id # <<>>
     /\ ~FirstEqualsTarget)
    => /\ cur.decision = "UPDATE"
       /\ Len(MutationsOf(run, cur.exp)) = 1
       /\ LET c == MutationsOf(run, cur.exp)[1]
          IN  /\ c.op = "mod-record"
              /\ c.domain = cur.zoneName
              /\ c.id = Returned[1].id
              /\ c.host = cur.hostName
              /\ c.type = cur.type
              /\ c.record = cur.value
              /\ c.ttl = cur.ttl

C10_Witness ==
    /\ cur.decision = "UPDATE"
    /\ pc = "loop"
    /\ Len(Returned) >= 2
    /\ Returned[1].id # Returned[2].id
    /\ Returned[1].record # cur.value
    /\ MutationsOf(run, cur.exp)[1].id = Returned[1].id
    /\ \E i \in 1..Len(store) : store[i].id = Returned[1].id /\ store[i].record = cur.value

RunTtl == IF argv.ttl = <<>> THEN <<"300">> ELSE argv.ttl

(* The records query gave nothing to modify: no entry at all, or a first    *)
(* entry without an id that is not the target.                              *)
NothingToModify ==
    \/ Returned = <<>>
    \/ (Returned # <<>> /\ Returned[1].id = <<>> /\ ~FirstEqualsTarget)

(* C11: when the records query returns no entry, or a first entry without   *)
(* an id that does not match the target, the reconciler issues exactly one  *)
(* add-record call with the resolved zone and host, the type, the export    *)
(* value and the run's ttl, and no mod-record call; the export              *)
(* 'ClouDNS:CNAME:www:example:com' = d123.cloudfront.net with zone          *)
(* example.com registered creates host www, type CNAME, ttl '300'.          *)
C11_Create ==
    (cur.decision # "" /\ NothingToModify)
    => /\ cur.decision = "CREATE"
       /\ Len(MutationsOf(run, cur.exp)) = 1
       /\ LET c == MutationsOf(run, cur.exp)[1]
          IN  /\ c.op = "add-record"
              /\ c.domain = cur.zoneName
              /\ c.host = cur.hostName
              /\ c.type = cur.type
              /\ c.record = listing[cur.exp].Value
              /\ c.ttl = RunTtl
              /\ (/\ DirectiveName = <<"ClouDNS", ":", "CNAME", ":", "www", ":", "example", ":", "com">>
                  /\ <<"example", ".", "com">> \in zones
                  /\ argv.ttl = <<>>)
                 => /\ c.domain = <<"example", ".", "com">>
                    /\ c.host = <<"www">>
                    /\ c.type = <<"CNAME">>
                    /\ c.record = <<"d123", ".", "cloudfront", ".", "net">>
                    /\ c.ttl = <<"300">>

C11_Witness ==
    /\ cur.decision = "CREATE" /\ Returned = <<>>
    /\ pc = "loop"
    /\ DirectiveName = <<"ClouDNS", ":", "CNAME", ":", "www", ":", "example", ":", "com">>
    /\ \E i \in 1..Len(store) :
          /\ store[i].zone = <<"example", ".", "com">>
          /\ store[i].host = <<"www">>
          /\ store[i].type = <<"CNAME">>
          /\ store[i].ttl = Str(<<"300">>)
          /\ store[i].record = <<"d123", ".", "cloudfront", ".", "net">>

(* C12: when add-record or mod-record answers with status "Failed", an      *)
(* error is thrown whose message carries the statusMessage when there is    *)
(* one and the statusDescription otherwise, and the run aborts; a result    *)
(* with another status throws nothing and the loop goes on.                 *)
C12_MutationFailure ==
    /\ cur.result.status = "Failed"
       => /\ pc = "aborted"
          /\ thrown.kind = (IF cur.decision = "UPDATE" THEN "Modify record failed"
                                                       ELSE "Add record failed")
          /\ thrown.text = (IF cur.result.statusMessage # <<>>
                            THEN cur.result.statusMessage
                            ELSE cur.result.statusDescription)
    /\ cur.result.status \notin {"Failed", "none"}
       => /\ thrown = <<>>
          /\ pc \in {"loop", "awaitExports", "done"}

C12_Witness ==
    /\ cur.result.status = "Failed"
    /\ cur.result.statusMessage # <<>>
    /\ cur.result.statusDescription # cur.result.statusMessage
    /\ thrown = [kind |-> "Modify record failed", text |-> cur.result.statusMessage]
    /\ pc = "aborted"

ProbesOf(r, e) == SelectSeq(calls, LAMBDA c : c.run = r /\ c.exp = e /\ c.op = "get-zone-info")

(* The probes sent so far, as they stand in one state.                      *)
NoNameProbedTwice ==
    \A i, j \in 1..Len(calls) :
        (/\ i < j
         /\ calls[i].op = "get-zone-info" /\ calls[j].op = "get-zone-info"
         /\ calls[i].run = calls[j].run)
        => calls[i].domain # calls[j].domain

(* C13: within one run no zone name is probed twice: any two get-zone-info  *)
(* calls of the same run are for different names, whether the name was      *)
(* reported as registered or not and whichever directive or candidate       *)
(* asked for it.                                                            *)
C13_OneProbePerName == []NoNameProbedTwice

C13_Witness ==
    \E i, j \in 1..Len(Decisions) :
        /\ i < j
        /\ Decisions[i].run = Decisions[j].run
        /\ Decisions[i].name = Decisions[j].name
        /\ Len(ProbesOf(Decisions[i].run, Decisions[i].exp)) = 2
        /\ \E k \in 1..2 : ~Registered(ProbesOf(Decisions[i].run, Decisions[i].exp)[k].domain)
        /\ ProbesOf(Decisions[j].run, Decisions[j].exp) = <<>>

(* C14: once an error has been thrown in a run, every later step leaves    *)
(* the calls issued, the exports visited, the zone cache and the provider's *)
(* records as they are: no further ListExports call, no further provider    *)
(* call, nothing in flight, the remaining exports unvisited and the         *)
(* mutations already applied kept.                                          *)
C14_AbortOnFirstError ==
    [][thrown # <<>>
       => /\ pc' = "aborted"
          /\ inflight' = {}
          /\ calls' = calls
          /\ visited' = visited
          /\ zoneCache' = zoneCache
          /\ store' = store
          /\ thrown' = thrown]_vars

C14_Witness ==
    /\ pc = "aborted" /\ thrown # <<>>
    /\ pageSize = 1
    /\ cur.exp < Len(listing)
    /\ \A i \in 1..Len(visited) : visited[i].run = run => visited[i].exp <= cur.exp
    /\ \A i \in 1..Len(calls) : calls[i].run = run => calls[i].exp <= cur.exp
    /\ Len(SelectSeq(calls, LAMBDA c : c.run = run /\ c.op = "ListExports")) = 1
    /\ calls[Len(calls)].op = "add-record"
    /\ store = cur.before

Awaiting ==
    {"awaitParameter", "awaitExports", "awaitZone1", "awaitZone2", "awaitRecords",
     "awaitMod", "awaitAdd"}

(* The calls and visits so far, as they stand in one state.                 *)
OneAtATime ==
    /\ Cardinality(inflight) <= 1
    /\ inflight # {} => (pc \in Awaiting /\ inflight = {calls[Len(calls)]})
    /\ pc \notin Awaiting => inflight = {}
    /\ (pc = "loop" /\ idx <= Len(page.Exports)) => page.Exports[idx] = listing[ExportNo]
    /\ \A k \in 1..Len(visited) :
          visited[k].exp = 1 + Cardinality({i \in 1..(k - 1) : visited[i].run = visited[k].run})
    /\ \A i, j \in 1..Len(calls) :
          (/\ i < j /\ calls[i].run = calls[j].run
           /\ calls[i].exp # 0 /\ calls[j].exp # 0)
          => calls[i].exp <= calls[j].exp

(* C15: at most one network call is in flight, and it is the call issued    *)
(* last; nothing is in flight when the loop turns to an export; the exports *)
(* of a run are visited in the order of the listing, one after the other,   *)
(* and the calls made for them follow that order.                           *)
C15_StrictSequencing == []OneAtATime

C15_Witness ==
    /\ pc = "awaitRecords"
    /\ Cardinality(inflight) = 1
    /\ \E i, k \in 1..Len(calls) :
          /\ i < k /\ k < Len(calls)
          /\ calls[i].run = run /\ calls[i].exp = 1 /\ calls[i].op \in Mutating
          /\ calls[k].run = run /\ calls[k].op = "ListExports" /\ calls[k].token # 0
          /\ calls[Len(calls)].run = run /\ calls[Len(calls)].exp = 2

ArgumentMissing == ~argv.user \/ ~argv.pwparam

(* C16: when the username or the password parameter name is missing, the    *)
(* program prints the usage message and exits with code 1, and no network   *)
(* call is ever made: no GetParameter, no ListExports, no provider call.    *)
C16_UsageError ==
    ArgumentMissing
    => /\ calls = <<>>
       /\ inflight = {}
       /\ pc \in {"start", "exited"}
       /\ pc = "exited" => (exitCode = 1 /\ err = <<[kind |-> "Usage", text |-> <<>>]>>)
       /\ pc = "start" => (exitCode = -1 /\ err = <<>>)

C16_Witness ==
    /\ argv.user /\ ~argv.pwparam
    /\ pc = "exited"
    /\ exitCode = 1
    /\ err = <<[kind |-> "Usage", text |-> <<>>]>>
    /\ calls = <<>>

MutatingCalls == SelectSeq(calls, LAMBDA c : c.op \in Mutating)

(* C17: every add-record and mod-record call carries the ttl argument of    *)
(* the command line when one is given and '300' when it is omitted, so all  *)
(* of them carry the same ttl.                                              *)
C17_Ttl ==
    \A i \in 1..Len(MutatingCalls) :
        /\ argv.ttl # <<>> => MutatingCalls[i].ttl = argv.ttl
        /\ argv.ttl = <<>> => MutatingCalls[i].ttl = <<"300">>
        /\ MutatingCalls[i].ttl = MutatingCalls[1].ttl

C17_Witness ==
    /\ argv.ttl = <<"3600">>
    /\ Len(MutatingCalls) = 2
    /\ MutatingCalls[1].op = "mod-record" /\ MutatingCalls[1].ttl = <<"3600">>
    /\ MutatingCalls[2].op = "add-record" /\ MutatingCalls[2].ttl = <<"3600">>
    /\ \E i \in 1..Len(store) :
          store[i].id = MutatingCalls[1].id /\ store[i].ttl = Str(<<"3600">>)

ProviderOps == {"get-zone-info", "records", "add-record", "mod-record"}
LastCall == calls[Len(calls)]

(* C18: when a provider call is answered with a status that is not ok, the  *)
(* body text is logged, an error with that text as message is thrown and    *)
(* the run aborts; the response is not used as a result: a failed zone      *)
(* probe leaves no entry for its name in the zone cache, a failed records   *)
(* query leads to no decision, a failed mutation leaves no result.          *)
C18_TransportError ==
    (thrown # <<>> /\ thrown.kind = "Error")
    => /\ pc = "aborted"
       /\ LastCall.op \in ProviderOps
       /\ LastCall.run = run /\ LastCall.exp = cur.exp
       /\ \E i \in 1..Len(err) : err[i] = [kind |-> "HTTP Error", text |-> ErrorBody(LastCall)]
       /\ thrown.text = ErrorBody(LastCall)
       /\ LastCall.op = "get-zone-info" => LastCall.domain \notin DOMAIN zoneCache
       /\ LastCall.op \in {"get-zone-info", "records"} => cur.decision = ""
       /\ LastCall.op \in Mutating => (cur.result = NoResponse /\ store = cur.before)

C18_Witness ==
    /\ thrown # <<>> /\ thrown.kind = "Error"
    /\ LastCall.op = "get-zone-info"
    /\ LastCall.domain = cur.zoneName2
    /\ cur.zoneName1 \in DOMAIN zoneCache
    /\ cur.zoneName2 \notin DOMAIN zoneCache
    /\ thrown.text = <<"Bad Gateway">>

DecisionLinesOf(r, e) ==
    SelectSeq(out, LAMBDA l : l.run = r /\ l.exp = e /\ l.kind \in {"OK", "UPDATE", "CREATE"})

(* C19: a directive that has reached its decision has exactly one decision  *)
(* line, with the decision and the whole target tuple (name, type, ttl,     *)
(* value, zone, host); every mod-record or add-record call has the UPDATE   *)
(* or CREATE line of its directive logged before the call was issued, with  *)
(* the values the call carries, whatever becomes of the call.               *)
C19_DecisionLogged ==
    /\ cur.decision # ""
       => /\ Len(DecisionLinesOf(run, cur.exp)) = 1
          /\ LET l == DecisionLinesOf(run, cur.exp)[1]
             IN  /\ l.kind = cur.decision
                 /\ l.name = cur.name /\ l.type = cur.type /\ l.ttl = cur.ttl
                 /\ l.value = cur.value /\ l.zone = cur.zoneName /\ l.host = cur.hostName
    /\ \A i \in 1..Len(calls) :
          calls[i].op \in Mutating
          => /\ Len(DecisionLinesOf(calls[i].run, calls[i].exp)) = 1
             /\ LET l == DecisionLinesOf(calls[i].run, calls[i].exp)[1]
                IN  /\ l.kind = (IF calls[i].op = "mod-record" THEN "UPDATE" ELSE "CREATE")
                    /\ l.at < i
                    /\ l.zone = calls[i].domain /\ l.host = calls[i].host
                    /\ l.type = calls[i].type /\ l.value = calls[i].record
                    /\ l.ttl = calls[i].ttl

C19_Witness ==
    /\ pc = "aborted"
    /\ thrown # <<>> /\ thrown.kind = "Add record failed"
    /\ Len(DecisionLinesOf(run, cur.exp)) = 1
    /\ DecisionLinesOf(run, cur.exp)[1].kind = "CREATE"
    /\ DecisionLinesOf(run, cur.exp)[1].at = Len(calls) - 1
    /\ LastCall.op = "add-record"
    /\ store = cur.before

(* The error that ended the run is on standard error: some line there      *)
(* carries its text.                                                        *)
ErrorLogged == \E i \in 1..Len(err) : err[i].text = thrown.text

(* C20: whenever the run has aborted on a fatal error of any kind           *)
(* (transport error, zone not found, mutation failed), that error has been  *)
(* written to standard error.                                               *)
C20_ErrorsLogged == (pc = "aborted" /\ thrown # <<>>) => ErrorLogged

ListCallsOf(r) == SelectSeq(calls, LAMBDA c : c.run = r /\ c.op = "ListExports")
VisitedIn(r) == SelectSeq(visited, LAMBDA v : v.run = r)
Terminated == pc \in {"done", "exited"} \/ thrown # <<>>

(* The list calls of the run so far follow the cursors: the first carries   *)
(* none, each further one the cursor of the page before it.                 *)
CursorsFollowed ==
    \A k \in 1..Len(ListCallsOf(run)) :
        IF k = 1 THEN ListCallsOf(run)[k].token = 0
        ELSE /\ PageOf(ListCallsOf(run)[k - 1].token).NextToken # 0
             /\ ListCallsOf(run)[k].token = PageOf(ListCallsOf(run)[k - 1].token).NextToken

(* C21: the list calls follow the cursors from page to page; a run that     *)
(* ends without error has made at least one list call, the last of them     *)
(* answered by a page without a next cursor, and has visited every export   *)
(* of the listing exactly once, in order; and every run, whose listing has  *)
(* finitely many pages, eventually ends, in "done" when no error occurs.    *)
C21_Pagination ==
    /\ [](/\ CursorsFollowed
          /\ pc = "done"
             => /\ Len(ListCallsOf(run)) >= 1
                /\ PageOf(ListCallsOf(run)[Len(ListCallsOf(run))].token).NextToken = 0
                /\ Len(VisitedIn(run)) = Len(listing)
                /\ \A k \in 1..Len(listing) : VisitedIn(run)[k].exp = k)
    /\ (pc = "start") ~> Terminated

C21_Witness ==
    /\ pc = "done"
    /\ pageSize = 1
    /\ Len(listing) = 2
    /\ Len(ListCallsOf(run)) = 2
    /\ ListCallsOf(run)[2].token # 0
    /\ Len(VisitedIn(run)) = 2

Reconstructs(name, zoneName, hostName) ==
    /\ zoneName # <<>>
    /\ IF hostName = <<>> THEN zoneName = name
       ELSE hostName \o <<".">> \o zoneName = name

(* C22: whenever resolution has succeeded for a directive, the zone         *)
(* returned is non-empty, and it is the whole name when the host returned   *)
(* is empty, else host, ".", zone is the name.                              *)
C22_Reconstruct ==
    (cur.zoneName # <<>> \/ pc \in {"awaitRecords", "awaitMod", "awaitAdd"})
        => Reconstructs(cur.name, cur.zoneName, cur.hostName)

(* The directive at hand comes from an export named by tag and type alone.  *)
TypeOnly == cur.exp # 0 /\ Len(SegmentsAfterTag(DirectiveName)) = 1

(* C23 as stated: for a directive whose export name is the tag and a record *)
(* type, the parsed hostname is empty and the directive is reconciled as an *)
(* apex record of the resolved zone: resolution does not refuse it.         *)
C23_Original ==
    TypeOnly =>
        /\ cur.name = <<>>
        /\ ~(pc = "aborted" /\ thrown.kind = "Zone Not Found")

(* C23: for a directive whose export name is the tag and a record type, the *)
(* parsed hostname is empty, both candidate zones are the empty name, and   *)
(* the directive is never reconciled: it gets no call but get-zone-info,    *)
(* and once the probe is answered resolution throws 'Zone Not Found: '.     *)
C23_TypeOnlyNotFound ==
    TypeOnly =>
        /\ cur.name = <<>>
        /\ cur.zoneName1 = <<>> /\ cur.zoneName2 = <<>>
        /\ cur.zoneName = <<>>
        /\ pc \in {"zone1", "awaitZone1", "zone2", "awaitZone2", "resolve", "aborted"}
        /\ (pc = "aborted" /\ thrown.kind # "Error")
              => thrown = [kind |-> "Zone Not Found", text |-> <<>>]
        /\ \A i \in 1..Len(calls) :
              (calls[i].run = run /\ calls[i].exp = cur.exp) => calls[i].op = "get-zone-info"

C23_Witness ==
    /\ TypeOnly
    /\ zones = ZonesA
    /\ cur.zoneResponse1.status = "Failed"
    /\ cur.zoneResponse2 = cur.zoneResponse1
    /\ Len(CallsOf(run, cur.exp)) = 1
    /\ pc = "aborted"
    /\ thrown = [kind |-> "Zone Not Found", text |-> <<>>]

(* The directive at hand has a name of fewer than 3 labels.                 *)
FewLabels == cur.exp # 0 /\ Len(LabelsOf(cur.name)) < 3
SecondLookupDone == pc \in {"resolve", "awaitRecords", "awaitMod", "awaitAdd"}

(* C24: for a directive whose name has fewer than 3 labels the second       *)
(* candidate is the zone the 3-label slicing gives (the last label of a     *)
(* 2-label name, the name itself for one label); once the directive is past *)
(* its second lookup that zone is in the cache with the answer used, and a  *)
(* get-zone-info call of the run asked for it, also when the first          *)
(* candidate was reported with status "1"; and that candidate is the zone   *)
(* returned only if the provider reports status "1" for it.                 *)
C24_ProbeAnyway ==
    FewLabels =>
        /\ cur.zoneName2 = ThreeLabelSplit(cur.name).zone
        /\ SecondLookupDone
              => /\ cur.zoneName2 \in DOMAIN zoneCache
                 /\ cur.zoneResponse2 = zoneCache[cur.zoneName2]
                 /\ \E i \in 1..Len(calls) :
                        /\ calls[i].run = run
                        /\ calls[i].op = "get-zone-info"
                        /\ calls[i].domain = cur.zoneName2
        /\ (cur.zoneName # <<>> /\ cur.zoneName # cur.zoneName1)
              => /\ cur.zoneName = cur.zoneName2
                 /\ cur.zoneResponse2.status = "1"
                 /\ Registered(cur.zoneName2)

C24_Witness ==
    /\ pc = "awaitRecords"
    /\ Len(LabelsOf(cur.name)) = 2
    /\ cur.zoneResponse1.status = "1"
    /\ cur.zoneName = cur.zoneName1
    /\ Len(ProbesOf(run, cur.exp)) = 2
    /\ ProbesOf(run, cur.exp)[2].domain = cur.zoneName2
    /\ Len(LabelsOf(cur.zoneName2)) = 1

(* An entry after the first one equals the target in host, type, ttl and    *)
(* value.                                                                   *)
LaterEqualsTarget ==
    \E k \in 2..Len(Returned) :
        /\ Returned[k].host = cur.hostName
        /\ Returned[k].type = cur.type
        /\ Returned[k].ttl = Str(cur.ttl)
        /\ Returned[k].record = cur.value

(* C25: when the records query of a directive returned two or more entries, *)
(* the decision is the one a query returning the first entry alone leads    *)
(* to, an UPDATE sends mod-record with the id of the first entry, an OK     *)
(* sends nothing and a CREATE sends add-record, whatever the later entries  *)
(* are.                                                                     *)
C25_FirstMatchOnly ==
    (cur.decision # "" /\ Len(Returned) >= 2)
    => /\ cur.decision = Decision(<<Returned[1]>>, cur.hostName, cur.type, cur.ttl, cur.value)
       /\ cur.decision = "OK" => MutationsOf(run, cur.exp) = <<>>
       /\ cur.decision = "UPDATE"
             => /\ MutationsOf(run, cur.exp)[1].op = "mod-record"
                /\ MutationsOf(run, cur.exp)[1].id = Returned[1].id
       /\ cur.decision = "CREATE" => MutationsOf(run, cur.exp)[1].op = "add-record"

C25_Witness ==
    /\ cur.decision \in {"UPDATE", "CREATE"}
    /\ Len(Returned) >= 2
    /\ ~FirstEqualsTarget
    /\ LaterEqualsTarget
    /\ Len(MutationsOf(run, cur.exp)) = 1

(* The first entry returned equals the target in host, type and value, and  *)
(* its ttl is not the string the run sends.                                 *)
OnlyTtlDiffers ==
    /\ cur.decision # ""
    /\ Returned # <<>>
    /\ Returned[1].host = cur.hostName
    /\ Returned[1].type = cur.type
    /\ Returned[1].record = cur.value
    /\ Returned[1].ttl # Str(cur.ttl)

(* C26 as stated: a first entry that differs from the target in its ttl     *)
(* alone, be it the number for the same digits or another string, is not a  *)
(* no-op and leads to an update.                                            *)
C26_Original ==
    OnlyTtlDiffers
    => /\ cur.decision = "UPDATE"
       /\ MutationsOf(run, cur.exp)[1].op = "mod-record"

(* C26: a first entry that differs from the target in its ttl alone, be it  *)
(* the number for the same digits or another string, is never a no-op: when *)
(* it carries an id it is updated, by a mod-record call with that id and    *)
(* the run's ttl, and when it carries none a record is created.             *)
C26_StrictTtl ==
    OnlyTtlDiffers
    => /\ cur.decision # "OK"
       /\ Len(MutationsOf(run, cur.exp)) = 1
       /\ Returned[1].id # <<>>
             => /\ cur.decision = "UPDATE"
                /\ MutationsOf(run, cur.exp)[1].op = "mod-record"
                /\ MutationsOf(run, cur.exp)[1].id = Returned[1].id
                /\ MutationsOf(run, cur.exp)[1].ttl = cur.ttl
       /\ Returned[1].id = <<>>
             => /\ cur.decision = "CREATE"
                /\ MutationsOf(run, cur.exp)[1].op = "add-record"

C26_Witness ==
    /\ OnlyTtlDiffers
    /\ Returned[1].ttl = Num(cur.ttl)
    /\ cur.decision = "UPDATE"
    /\ MutationsOf(run, cur.exp)[1].id = Returned[1].id

(* C27: the cache is empty before the first lookup of a run; a step of a    *)
(* run adds a key only for a candidate zone of the directive at hand, for   *)
(* which a get-zone-info call of the run was issued, and leaves every key   *)
(* present with its value; the answer a lookup uses is the cached one, so   *)
(* it is the first answer also after the zones have changed at the          *)
(* provider.                                                                *)
C27_CacheAppendOnly ==
    /\ [](/\ pc \in {"start", "awaitParameter", "awaitExports"} /\ nextToken = 0
             => zoneCache = << >>
          /\ cur.zoneResponse1.status # "none"
                => /\ cur.zoneName1 \in DOMAIN zoneCache
                   /\ cur.zoneResponse1 = zoneCache[cur.zoneName1]
          /\ cur.zoneResponse2.status # "none"
                => /\ cur.zoneName2 \in DOMAIN zoneCache
                   /\ cur.zoneResponse2 = zoneCache[cur.zoneName2])
    /\ [][run' = run =>
            /\ \A k \in DOMAIN zoneCache :
                   k \in DOMAIN zoneCache' /\ zoneCache'[k] = zoneCache[k]
            /\ \A k \in DOMAIN zoneCache' \ DOMAIN zoneCache :
                   /\ k \in {cur.zoneName1, cur.zoneName2}
                   /\ \E i \in 1..Len(calls) :
                          /\ calls[i].run = run
                          /\ calls[i].op = "get-zone-info"
                          /\ calls[i].domain = k]_vars

C27_Witness ==
    /\ pc = "awaitRecords"
    /\ ProbesOf(run, cur.exp) = <<>>
    /\ cur.zoneName # <<>>
    /\ zoneCache[cur.zoneName].status = "1"
    /\ ~Registered(cur.zoneName)

TripleOf(r) == <<r.zone, r.host, r.type>>
InTriple(s, tr) == SelectSeq(s, LAMBDA r : TripleOf(r) = tr)
TriplesIn(s) == {TripleOf(s[i]) : i \in 1..Len(s)}
AllOps == ProviderOps \cup {"GetParameter", "ListExports"}

(* C28: every call is a parameter fetch, an export listing, a zone probe, a *)
(* records query, an add-record or a mod-record, and no call is issued      *)
(* twice; a step never removes a record, changes a record only when the     *)
(* call in flight is a mod-record carrying that record's id, and leaves the *)
(* records of every (zone, host, type) other than the one the directive at  *)
(* hand resolved to as they were.                                           *)
C28_NoDeletionNoRetry ==
    /\ [](/\ \A i \in 1..Len(calls) : calls[i].op \in AllOps
          /\ \A i, j \in 1..Len(calls) : i < j => calls[i] # calls[j])
    /\ [][/\ Len(store') >= Len(store)
          /\ \A i \in 1..Len(store) :
                 store'[i] # store[i]
                     => /\ pc = "awaitMod"
                        /\ TheCall.op = "mod-record"
                        /\ TheCall.id = store[i].id
                        /\ store'[i].id = store[i].id
          /\ \A tr \in TriplesIn(store) \cup TriplesIn(store') :
                 tr # <<cur.zoneName, cur.hostName, cur.type>>
                     => InTriple(store', tr) = InTriple(store, tr)]_vars

C28_Witness ==
    /\ pc = "done"
    /\ \E i \in 1..Len(calls) : calls[i].op = "mod-record"
    /\ \E i \in 1..Len(calls) : calls[i].op = "add-record"
    /\ \E tr \in TriplesIn(store) :
           \A i \in 1..Len(calls) :
               calls[i].op = "records" => tr # <<calls[i].domain, calls[i].host, calls[i].type>>

(* The provider's records before the first run.                             *)
InitialStore == (CHOOSE p \in Providers : p.zones = zones).store
OnePerTriple(s) == \A i, j \in 1..Len(s) : i < j => TripleOf(s[i]) # TripleOf(s[j])
AllWithId(s) == \A i \in 1..Len(s) : s[i].id # <<>>

(* C29 as stated: when the provider held at most one record per (zone,      *)
(* host, type) before the first run, it holds at most one per triple at     *)
(* every point of every run.                                                *)
C29_Original == OnePerTriple(InitialStore) => OnePerTriple(store)

(* C29: a triple for which the provider holds no record, or one record that *)
(* carries an id, holds after every step at most one record, which carries  *)
(* an id; and add-record is issued for a triple only when the query for it  *)
(* returned no record or a first record without an id.                      *)
C29_NoDuplicates ==
    /\ [](\A i \in 1..Len(calls) :
              (calls[i].op = "add-record" /\ calls[i].run = run /\ calls[i].exp = cur.exp)
                  => (Returned = <<>> \/ Returned[1].id = <<>>))
    /\ [][\A tr \in TriplesIn(store) \cup TriplesIn(store') :
              (Len(InTriple(store, tr)) <= 1 /\ AllWithId(InTriple(store, tr)))
                  => (Len(InTriple(store', tr)) <= 1 /\ AllWithId(InTriple(store', tr)))]_vars

C29_Witness ==
    /\ pc = "done"
    /\ OnePerTriple(InitialStore)
    /\ \E i, j \in 1..Len(calls) :
           /\ i < j
           /\ calls[i].op = "add-record"
           /\ calls[j].op = "mod-record"
           /\ calls[i].run = calls[j].run
           /\ calls[i].domain = calls[j].domain
           /\ calls[i].host = calls[j].host
           /\ calls[i].type = calls[j].type
           /\ Len(InTriple(store, <<calls[i].domain, calls[i].host, calls[i].type>>)) = 1

(* Decision lines i and j of the run at hand are for the same (zone, host,  *)
(* type) with different values, j being the next one for it after i.        *)
TargetOf(l) == <<l.zone, l.host, l.type>>
NextForSameTarget(i, j) ==
    /\ i < j
    /\ Decisions[i].run = run /\ Decisions[j].run = run
    /\ TargetOf(Decisions[i]) = TargetOf(Decisions[j])
    /\ Decisions[i].value # Decisions[j].value
    /\ \A k \in (i + 1)..(j - 1) : TargetOf(Decisions[k]) # TargetOf(Decisions[j])
LastForTarget(j) ==
    \A k \in (j + 1)..Len(Decisions) :
        Decisions[k].run = run => TargetOf(Decisions[k]) # TargetOf(Decisions[j])
LaterUpdatesAndWins(i, j) ==
    /\ Decisions[j].kind = "UPDATE"
    /\ Len(MutationsOf(run, Decisions[j].exp)) = 1
    /\ MutationsOf(run, Decisions[j].exp)[1].op = "mod-record"
    /\ LastForTarget(j)
          => InTriple(store, TargetOf(Decisions[j]))[1].record = Decisions[j].value

(* C30 as stated: at the end of an error-free run, of two exports that      *)
(* resolved to the same (zone, host, type) with different values the later  *)
(* one was an update by mod-record, and the record of the triple holds the  *)
(* value of the export that came last.                                      *)
C30_Original ==
    pc = "done" =>
        \A i, j \in 1..Len(Decisions) : NextForSameTarget(i, j) => LaterUpdatesAndWins(i, j)

(* C30: at the end of an error-free run, of two exports that resolved to    *)
(* the same (zone, host, type) with different values, all records of which  *)
(* carry an id, the later one was an update by mod-record, and the first    *)
(* record of the triple holds the value of the export that came last.       *)
C30_LastExportWins ==
    pc = "done" =>
        \A i, j \in 1..Len(Decisions) :
            (/\ NextForSameTarget(i, j)
             /\ AllWithId(InTriple(store, TargetOf(Decisions[j]))))
            => LaterUpdatesAndWins(i, j)

C30_Witness ==
    /\ pc = "done"
    /\ \E i, j \in 1..Len(Decisions) :
           /\ NextForSameTarget(i, j)
           /\ Decisions[i].kind = "CREATE"
           /\ Decisions[j].kind = "UPDATE"
           /\ InTriple(store, TargetOf(Decisions[j]))
                  = <<Rec(<<"100">>, Decisions[j].zone, Decisions[j].host, Decisions[j].type,
                          Str(Decisions[j].ttl), Decisions[j].value)>>

(* The directive at hand has got past resolution.                           *)
Decided == pc \in {"awaitRecords", "awaitMod", "awaitAdd"} \/ cur.decision # ""

(* The lookups of the directive at hand, as they stand in one state.        *)
LookupsInOrder ==
    cur.exp # 0 =>
        /\ (pc \in {"zone2", "awaitZone2"} \/ cur.zoneResponse2.status # "none")
              => cur.zoneResponse1.status # "none"
        /\ (SecondLookupDone \/ Decided)
              => /\ cur.zoneResponse2.status # "none"
                 /\ cur.zoneName1 \in DOMAIN zoneCache
                 /\ cur.zoneName2 \in DOMAIN zoneCache
                 /\ cur.zoneResponse1 = zoneCache[cur.zoneName1]
                 /\ cur.zoneResponse2 = zoneCache[cur.zoneName2]
        /\ LET probes == ProbesOf(run, cur.exp)
           IN  /\ Len(probes) <= 2
               /\ Len(probes) = 2 => /\ probes[1].domain = cur.zoneName1
                                     /\ probes[2].domain = cur.zoneName2
        /\ cur.zoneResponse2.status = "none"
              => /\ cur.zoneName = <<>>
                 /\ \A i \in 1..Len(calls) :
                        (calls[i].run = run /\ calls[i].exp = cur.exp)
                            => calls[i].op = "get-zone-info"
                 /\ pc \in {"zone1", "awaitZone1", "zone2", "awaitZone2", "aborted"}

(* C31: throughout every run the second candidate is looked up only after  *)
(* the first one has its answer, whatever that answer is; a directive past  *)
(* its second                                                               *)
(* lookup has an answer for both candidates, each the cached one, and the   *)
(* probes it sent are for the first candidate, then the second; as long as  *)
(* the second answer is missing nothing is resolved and no records query or *)
(* mutation is issued, so an error on the second probe ends the run also    *)
(* when the first candidate was reported with status "1".                   *)
C31_BothLookedUp == []LookupsInOrder

C31_Witness ==
    /\ pc = "aborted"
    /\ thrown.kind = "Error"
    /\ cur.zoneResponse1.status = "1"
    /\ cur.zoneResponse2.status = "none"
    /\ LastCall.op = "get-zone-info"
    /\ LastCall.exp = cur.exp
    /\ LastCall.domain = cur.zoneName2
    /\ LastCall.domain # cur.zoneName1

(* Place of a provider operation in the protocol of a directive.            *)
Stage(op) == IF op = "get-zone-info" THEN 0 ELSE IF op = "records" THEN 1 ELSE 2

QueriesOf(r, e) == SelectSeq(calls, LAMBDA c : c.run = r /\ c.exp = e /\ c.op = "records")

DirectivesCalled == {<<calls[i].run, calls[i].exp>> : i \in {k \in 1..Len(calls) : calls[k].exp # 0}}

(* The two candidate splits and the type of every directive name of the     *)
(* catalogue.                                                               *)
CandidatesOf ==
    [n \in {e.Name : e \in {x \in Catalogue : MatchesTag(x.Name)}} |->
        [type |-> ResourceType(n),
         zoneName1 |-> ZoneName1(ResourceName(n)), hostName1 |-> HostName1(ResourceName(n)),
         zoneName2 |-> ZoneName2(ResourceName(n)), hostName2 |-> HostName2(ResourceName(n))]]

(* The calls made so far for export e in run r begin the protocol: probes,  *)
(* first candidate before second; one records query; one mutation.          *)
FollowsProtocol(r, e) ==
    LET cs == CallsOf(r, e)
        probes == SelectSeq(cs, LAMBDA c : c.op = "get-zone-info")
        queries == SelectSeq(cs, LAMBDA c : c.op = "records")
        mutations == SelectSeq(cs, LAMBDA c : c.op \in Mutating)
    IN  /\ listing[e].Name \in DOMAIN CandidatesOf
        /\ LET c == CandidatesOf[listing[e].Name]
           IN  /\ \A i, j \in 1..Len(cs) : i < j => Stage(cs[i].op) <= Stage(cs[j].op)
               /\ \A i \in 1..Len(cs) : cs[i].op \in ProviderOps
               /\ Len(probes) <= 2 /\ Len(queries) <= 1 /\ Len(mutations) <= 1
               /\ mutations # <<>> => queries # <<>>
               /\ \A i \in 1..Len(probes) : probes[i].domain \in {c.zoneName1, c.zoneName2}
               /\ Len(probes) = 2 => /\ probes[1].domain = c.zoneName1
                                     /\ probes[2].domain = c.zoneName2
               /\ queries # <<>>
                     => /\ queries[1].type = c.type
                        /\ \/ queries[1].domain = c.zoneName1 /\ queries[1].host = c.hostName1
                           \/ queries[1].domain = c.zoneName2 /\ queries[1].host = c.hostName2
                        /\ \A i \in 1..Len(mutations) :
                               /\ mutations[i].domain = queries[1].domain
                               /\ mutations[i].host = queries[1].host
                               /\ mutations[i].type = queries[1].type

(* The calls of all directives so far, as they stand in one state.          *)
CallsInOrder ==
    /\ \A d \in DirectivesCalled : FollowsProtocol(d[1], d[2])
    /\ LET queries == QueriesOf(run, cur.exp)
       IN  (cur.exp # 0 /\ queries # <<>>)
          => /\ queries[1].domain = cur.zoneName
             /\ queries[1].host = cur.hostName
             /\ queries[1].type = cur.type
             /\ cur.zoneResponse1.status # "none" /\ cur.zoneResponse2.status # "none"
             /\ cur.zoneName \in DOMAIN zoneCache
             /\ zoneCache[cur.zoneName].status = "1"
    /\ \A k \in 1..Len(Decisions) :
          LET l == Decisions[k]
              queries == QueriesOf(l.run, l.exp)
              mutations == MutationsOf(l.run, l.exp)
          IN  /\ Len(queries) = 1
              /\ queries[1].domain = l.zone
              /\ queries[1].host = l.host
              /\ queries[1].type = l.type
              /\ Len(mutations) = (IF l.kind = "OK" THEN 0 ELSE 1)
              /\ \A i \in 1..Len(mutations) :
                    mutations[i].op =
                        (IF l.kind = "UPDATE" THEN "mod-record" ELSE "add-record")

(* C32: throughout every run the provider calls of every directive come in *)
(* the order zone                                                           *)
(* probes (at most two, first candidate before second), then one records    *)
(* query, then at most one of add-record and mod-record; the records query  *)
(* goes to the resolved zone, host and type, and is issued only once both   *)
(* candidates are answered and the zone chosen has status "1"; a directive  *)
(* that reached its decision has exactly one records query, and one         *)
(* mutation exactly when the decision was UPDATE or CREATE.                 *)
C32_CallProtocol == []CallsInOrder

C32_Witness ==
    /\ cur.exp # 0
    /\ cur.result = SuccessResult
    /\ cur.zoneName = cur.zoneName2
    /\ Len(CallsOf(run, cur.exp)) = 4
    /\ CallsOf(run, cur.exp)[1].op = "get-zone-info"
    /\ CallsOf(run, cur.exp)[1].domain = cur.zoneName1
    /\ CallsOf(run, cur.exp)[2].op = "get-zone-info"
    /\ CallsOf(run, cur.exp)[2].domain = cur.zoneName2
    /\ CallsOf(run, cur.exp)[3].op = "records"
    /\ CallsOf(run, cur.exp)[3].domain = cur.zoneName2
    /\ CallsOf(run, cur.exp)[4].op \in Mutating

(* No stack-name argument, or exactly one and that one not empty.           *)
AtMostOneStack ==
    \/ Len(argv.stacks) = 0
    \/ Len(argv.stacks) = 1 /\ argv.stacks[1] # <<>>

(* The verdicts of the two filters on every owning-stack identifier of the  *)
(* catalogue, for every command line.                                       *)
Verdicts ==
    [a \in CommandLines, id \in {e.ExportingStackId : e \in Catalogue} |->
        [multi |-> MultiSkip(a.stacks, id), single |-> SingleSkip(a.stacks, id)]]

(* C33: on a command line with no stack name or with one non-empty stack    *)
(* name, the filter of the multi-stack driver and the filter of the         *)
(* single-stack driver give the same verdict on every export the run has    *)
(* visited, and that verdict is the one the run acted on: the export was    *)
(* passed over without a provider call exactly when both filters skip it.   *)
(* The two drivers differ in nothing but the filter, so they visit the same *)
(* exports in the same order and issue the same provider calls.             *)
C33_BuildsAgree ==
    (AtMostOneStack /\ build \in {"multi", "single"}) =>
        \A k \in 1..Len(visited) :
            LET v == Verdicts[argv, listing[visited[k].exp].ExportingStackId]
            IN  /\ v.multi = v.single
                /\ (visited[k].fate = "skipped") = v.multi
                /\ (visited[k].fate = "skipped") = v.single
                /\ visited[k].fate = "skipped"
                      => CallsOf(visited[k].run, visited[k].exp) = <<>>

C33_Witness ==
    /\ build = "single"
    /\ Len(argv.stacks) = 1
    /\ \E i, j \in 1..Len(visited) :
          /\ visited[i].run = visited[j].run
          /\ visited[i].fate = "skipped"
          /\ visited[j].fate = "directive"
          /\ listing[visited[j].exp].ExportingStackId # argv.stacks[1]
          /\ StackIdMatch(listing[visited[j].exp].ExportingStackId) = <<argv.stacks[1]>>
          /\ CallsOf(visited[j].run, visited[j].exp) # <<>>

====
